---- MODULE Spec2Model ----
(***************************************************************************)
(* Cluster identity, cluster listener lifecycle and request forwarding of  *)
(* vault/cluster.go, as a state machine.                                   *)
(*                                                                         *)
(* Conventions.  A Go value that may be nil/empty is a sequence: <<>> is   *)
(* nil (or the empty string, or an absent storage entry) and <<v>> is the  *)
(* value v.  Random values (uuid.GenerateUUID, ecdsa.GenerateKey, ...) are *)
(* stamps drawn from the counter nextRand, so two draws made by different  *)
(* calls never collide.                                                    *)
(***************************************************************************)
EXTENDS Integers, Sequences, FiniteSets, TLC

\* ------------------------------------------------------------------ bounds
NumNodes == 3
MaxRand == 3
MaxCalls == 7
NumPorts == 2
NumThreads == 2
MaxClients == 2
NumTLSNodes == 3

Nodes == 1..NumNodes
Self == 1

VARIABLES
    \* the barrier (shared by every node)
    sealed, storeInfo, storeKey,
    \* Core fields of each node
    clusterName, advertiseAddr, localClusterPrivateKey, localClusterCertPool,
    \* random source
    nextRand,
    \* setupCluster calls of the nodes: the node of the last call and how it
    \* returned, and the position and locals of each node's call when the
    \* barrier operations of the calls interleave
    idLast, setupPc, setupLocal,
    \* Core fields of node Self: cluster listeners
    clusterListenerSetupFunc, clusterListenerShutdownCh,
    clusterListenerShutdownSuccessCh,
    \* runtime: channels, sockets, goroutines
    closedChans, openLns, serveTasks, coord, panicked,
    \* the goroutine that holds the state lock and calls start/stop
    hostPc, stopDeferred, ret, ncalls, nodeState,
    \* Core fields of node Self: request forwarding
    requestForwardingConnection, clientsMade,
    \* requestForwardingConnectionWriteLock
    rwReaders, rwWriter,
    \* the request-handling goroutines
    pc, argAddr, fwdSnapshot, fwdStable, fwdTarget,
    \* what the last call returned, the address the connection had before its
    \* address was last replaced, and the last address a refresh returned nil for
    thrRet, prevAddr, lastRefreshed,
    \* what the last ClusterTLSConfig call of each node returned, with the
    \* certificate that was stored when it was made
    tlsConfig

setupVars == <<idLast, setupPc, setupLocal>>
identityVars == <<sealed, storeInfo, storeKey, clusterName, advertiseAddr,
                  localClusterPrivateKey, localClusterCertPool, nextRand,
                  setupVars>>
listenerVars == <<clusterListenerSetupFunc, clusterListenerShutdownCh,
                  clusterListenerShutdownSuccessCh, closedChans, openLns,
                  serveTasks, coord, panicked>>
hostVars == <<hostPc, stopDeferred, ret, ncalls, nodeState>>
forwardVars == <<requestForwardingConnection, clientsMade, rwReaders, rwWriter, pc, argAddr,
                 fwdSnapshot, fwdStable, fwdTarget, thrRet, prevAddr,
                 lastRefreshed>>
tlsVars == <<tlsConfig>>
vars == <<identityVars, listenerVars, hostVars, forwardVars, tlsVars>>

\* ------------------------------------------------------- identity: values
corePrivateKeyTypeP521 == "p521"

ConfiguredNames == {<<>>, <<"testcluster">>}
AdvertiseAddrs == {"", "http://127.0.0.1:8202"}

\* json.Marshal of a []byte: nil becomes null, anything else a base64 string.
MarshalBytes(b) == IF b = <<>> THEN <<"null">> ELSE <<"base64", b>>
\* DecodeJSON into a []byte: null leaves nil.
UnmarshalBytes(j) == IF j = <<"null">> THEN <<>> ELSE j[2]

\* A decoding that loses the identifier
UnmarshalCluster_NoID(j) ==
    [Name |-> j.name, ID |-> <<>>,
     Certificate |-> IF j.certificate = <<"null">> THEN <<>> ELSE j.certificate[2]]

\* json.Marshal(cluster) / jsonutil.DecodeJSON(entry.Value, &cluster)
MarshalCluster(c) ==
    [name |-> c.Name, id |-> c.ID, certificate |-> MarshalBytes(c.Certificate)]
UnmarshalCluster(j) ==
    [Name |-> j.name, ID |-> j.id, Certificate |-> UnmarshalBytes(j.certificate)]

\* var cluster Cluster
ZeroCluster == [Name |-> <<>>, ID |-> <<>>, Certificate |-> <<>>]

\* An encoding of the generated key that drops the private scalar
MarshalKey_NoD(k) ==
    [type |-> corePrivateKeyTypeP521, x |-> <<k>>, y |-> <<k>>, d |-> <<>>]

\* json.Marshal(&privKeyParams{...}) of a generated key with stamp k
MarshalKey(k) ==
    [type |-> corePrivateKeyTypeP521, x |-> <<k>>, y |-> <<k>>, d |-> <<k>>]

\* x509.CreateCertificate(template, template, key.Public(), key): a self-signed
\* certificate whose CommonName and only DNS name are host.
CreateCertificate(host, key) ==
    <<[CommonName |-> host, DNSNames |-> <<host>>, IsCA |-> TRUE,
       PublicKey |-> [X |-> key.X, Y |-> key.Y], SignedBy |-> key.D]>>
\* x509.ParseCertificate(der)
ParseCertificate(der) == der[1]

\* ----------------------------------------------------- identity: Cluster()
\* Cluster() reading the physical entry although the barrier is sealed
Cluster_IgnoreSeal(n) ==
    IF storeInfo = <<>>
    THEN [err |-> "", cluster |-> ZeroCluster, pool |-> localClusterCertPool[n]]
    ELSE LET dec == UnmarshalCluster(storeInfo[1])
             cl == IF clusterName[n] # <<>>
                   THEN [dec EXCEPT !.Name = clusterName[n]] ELSE dec
             pool0 == IF localClusterCertPool[n] = <<>>
                      THEN {} ELSE localClusterCertPool[n][1]
             pool1 == IF cl.Certificate # <<>> /\ Len(cl.Certificate) # 0
                      THEN pool0 \cup {ParseCertificate(cl.Certificate)}
                      ELSE pool0
         IN [err |-> "", cluster |-> cl, pool |-> <<pool1>>]

\* c.Cluster() without the certificate pool being created or filled
\* (lines 86-97 left out)
Cluster_NoAddCert(n) ==
    IF sealed
    THEN [err |-> "Vault is sealed", cluster |-> ZeroCluster,
          pool |-> localClusterCertPool[n]]
    ELSE IF storeInfo = <<>>
    THEN [err |-> "", cluster |-> ZeroCluster, pool |-> localClusterCertPool[n]]
    ELSE LET dec == UnmarshalCluster(storeInfo[1])
             cl == IF clusterName[n] # <<>>
                   THEN [dec EXCEPT !.Name = clusterName[n]] ELSE dec
         IN [err |-> "", cluster |-> cl,
             pool |-> IF localClusterCertPool[n] = <<>>
                      THEN <<{}>> ELSE localClusterCertPool[n]]

\* c.Cluster(): the decoded record, the error, and the certificate pool the
\* call leaves behind.
Cluster(n) ==
    IF sealed
    THEN [err |-> "Vault is sealed", cluster |-> ZeroCluster,
          pool |-> localClusterCertPool[n]]
    ELSE IF storeInfo = <<>>
    THEN [err |-> "", cluster |-> ZeroCluster, pool |-> localClusterCertPool[n]]
    ELSE LET dec == UnmarshalCluster(storeInfo[1])
             cl == IF clusterName[n] # <<>>
                   THEN [dec EXCEPT !.Name = clusterName[n]] ELSE dec
             pool0 == IF localClusterCertPool[n] = <<>>
                      THEN {} ELSE localClusterCertPool[n][1]
             pool1 == IF cl.Certificate # <<>> /\ Len(cl.Certificate) # 0
                      THEN pool0 \cup {ParseCertificate(cl.Certificate)}
                      ELSE pool0
         IN [err |-> "", cluster |-> cl, pool |-> <<pool1>>]

NoTLSConfig == <<>>

\* c.ClusterTLSConfig() returning nil, nil where lines 368-370 return the
\* error
ClusterTLSConfig_NilCertNoError(n) ==
    LET r == Cluster(n) IN
    IF r.err # ""
    THEN [err |-> r.err, cfg |-> NoTLSConfig, pool |-> r.pool]
    ELSE IF r.cluster.Certificate = <<>> \/ Len(r.cluster.Certificate) = 0
    THEN [err |-> "", cfg |-> NoTLSConfig, pool |-> r.pool]
    ELSE [err |-> "",
          cfg |-> <<[Certificate |-> r.cluster.Certificate,
                     PrivateKey |-> localClusterPrivateKey[n],
                     RootCAs |-> r.pool,
                     ClientCAs |-> r.pool,
                     ServerName |-> ParseCertificate(r.cluster.Certificate).CommonName,
                     ClientAuth |-> "RequireAndVerifyClientCert",
                     NextProtos |-> <<"h2">>]>>,
          pool |-> r.pool]

\* c.ClusterTLSConfig(): the configuration, the error, and the pool left behind.
ClusterTLSConfig(n) ==
    LET r == Cluster(n) IN
    IF r.err # ""
    THEN [err |-> r.err, cfg |-> NoTLSConfig, pool |-> r.pool]
    ELSE IF r.cluster.Certificate = <<>> \/ Len(r.cluster.Certificate) = 0
    THEN [err |-> "cluster certificate is nil", cfg |-> NoTLSConfig, pool |-> r.pool]
    ELSE [err |-> "",
          cfg |-> <<[Certificate |-> r.cluster.Certificate,
                     PrivateKey |-> localClusterPrivateKey[n],
                     RootCAs |-> r.pool,
                     ClientCAs |-> r.pool,
                     ServerName |-> ParseCertificate(r.cluster.Certificate).CommonName,
                     ClientAuth |-> "RequireAndVerifyClientCert",
                     NextProtos |-> <<"h2">>]>>,
          pool |-> r.pool]

\* ------------------------------------------------- identity: setupCluster
\* A barrier operation of one setupCluster call that the physical backend
\* fails ("none": every operation succeeds while the barrier is unsealed).
Faults == {"none", "getKey", "putKey", "putInfo"}

\* The private-key block without the read of the stored key
LoadOrGenerateKey_AlwaysGenerate(n, fault, stamp) ==
    IF localClusterPrivateKey[n] # <<>>
    THEN [err |-> "", privKey |-> localClusterPrivateKey[n],
          key |-> storeKey, needNewCert |-> FALSE, drew |-> FALSE]
    ELSE [err |-> "",
          privKey |-> <<[X |-> stamp, Y |-> stamp, D |-> stamp]>>,
          key |-> <<MarshalKey(stamp)>>,
          needNewCert |-> TRUE, drew |-> TRUE]

\* The private-key block without the test of the key type (line 203)
LoadOrGenerateKey_AnyType(n, fault, stamp) ==
    LET same == [err |-> "", privKey |-> localClusterPrivateKey[n],
                 key |-> storeKey, needNewCert |-> FALSE, drew |-> FALSE]
    IN
    IF localClusterPrivateKey[n] # <<>> THEN same
    ELSE IF fault = "getKey"
    THEN [same EXCEPT !.err = "failed to read local cluster key path"]
    ELSE IF storeKey = <<>>
    THEN IF fault = "putKey"
         THEN [same EXCEPT !.err = "failed to store local cluster key",
                           !.drew = TRUE]
         ELSE [err |-> "",
               privKey |-> <<[X |-> stamp, Y |-> stamp, D |-> stamp]>>,
               key |-> <<MarshalKey(stamp)>>,
               needNewCert |-> TRUE, drew |-> TRUE]
    ELSE LET params == storeKey[1] IN
         IF params.x = <<>> \/ params.y = <<>> \/ params.d = <<>>
         THEN [same EXCEPT !.err = "failed to parse local cluster key"]
         ELSE [same EXCEPT !.privKey =
                 <<[X |-> params.x[1], Y |-> params.y[1], D |-> params.d[1]]>>]

\* The private-key block assigning c.localClusterPrivateKey before the Put
\* of line 179
LoadOrGenerateKey_KeepUnstoredKey(n, fault, stamp) ==
    LET same == [err |-> "", privKey |-> localClusterPrivateKey[n],
                 key |-> storeKey, needNewCert |-> FALSE, drew |-> FALSE]
    IN
    IF localClusterPrivateKey[n] # <<>> THEN same
    ELSE IF fault = "getKey"
    THEN [same EXCEPT !.err = "failed to read local cluster key path"]
    ELSE IF storeKey = <<>>
    THEN IF fault = "putKey"
         THEN [same EXCEPT !.err = "failed to store local cluster key",
                           !.privKey = <<[X |-> stamp, Y |-> stamp, D |-> stamp]>>,
                           !.drew = TRUE]
         ELSE [err |-> "",
               privKey |-> <<[X |-> stamp, Y |-> stamp, D |-> stamp]>>,
               key |-> <<MarshalKey(stamp)>>,
               needNewCert |-> TRUE, drew |-> TRUE]
    ELSE LET params == storeKey[1] IN
         IF params.x = <<>> \/ params.y = <<>> \/ params.d = <<>>
         THEN [same EXCEPT !.err = "failed to parse local cluster key"]
         ELSE IF params.type # corePrivateKeyTypeP521
         THEN [same EXCEPT !.err = "failed to find valid local cluster key type"]
         ELSE [same EXCEPT !.privKey =
                 <<[X |-> params.x[1], Y |-> params.y[1], D |-> params.d[1]]>>]

\* The private-key block of setupCluster (lines 150-215): what the call
\* leaves in memory and in storage, and whether a new certificate is needed.
LoadOrGenerateKey(n, fault, stamp) ==
    LET same == [err |-> "", privKey |-> localClusterPrivateKey[n],
                 key |-> storeKey, needNewCert |-> FALSE, drew |-> FALSE]
    IN
    IF localClusterPrivateKey[n] # <<>> THEN same
    ELSE IF fault = "getKey"
    THEN [same EXCEPT !.err = "failed to read local cluster key path"]
    ELSE IF storeKey = <<>>
    THEN IF fault = "putKey"
         THEN [same EXCEPT !.err = "failed to store local cluster key",
                           !.drew = TRUE]
         ELSE [err |-> "",
               privKey |-> <<[X |-> stamp, Y |-> stamp, D |-> stamp]>>,
               key |-> <<MarshalKey(stamp)>>,
               needNewCert |-> TRUE, drew |-> TRUE]
    ELSE LET params == storeKey[1] IN
         IF params.x = <<>> \/ params.y = <<>> \/ params.d = <<>>
         THEN [same EXCEPT !.err = "failed to parse local cluster key"]
         ELSE IF params.type # corePrivateKeyTypeP521
         THEN [same EXCEPT !.err = "failed to find valid local cluster key type"]
         ELSE [same EXCEPT !.privKey =
                 <<[X |-> params.x[1], Y |-> params.y[1], D |-> params.d[1]]>>]

\* Line 217 asking for a certificate on every call
NeedsCertificate_EveryCall(n, needNewCert, certificate) == advertiseAddr[n] # ""

\* Line 217 without the test of the advertise address
NeedsCertificate_AnyAddr(n, needNewCert, certificate) ==
    needNewCert \/ certificate = <<>> \/ Len(certificate) = 0

\* Whether setupCluster generates a certificate (line 217).
NeedsCertificate(n, needNewCert, certificate) ==
    (needNewCert \/ certificate = <<>> \/ Len(certificate) = 0)
        /\ advertiseAddr[n] # ""

\* c.setupCluster() run by node n: the error it returns and the values it
\* leaves in the node's memory and in the barrier.
setupCluster(n, fault) ==
    LET r == Cluster(n)
        stamp == nextRand + 1
        failed(e, name, pool, privKey, key, drew) ==
            [err |-> e, clusterName |-> name, pool |-> pool, privKey |-> privKey,
             key |-> key, info |-> storeInfo, drew |-> drew, wrote |-> FALSE]
    IN
    IF r.err # ""
    THEN failed(r.err, clusterName[n], r.pool, localClusterPrivateKey[n],
                storeKey, FALSE)
    ELSE
    LET setName == r.cluster.Name = <<>>
        genName == setName /\ clusterName[n] = <<>>
        name == IF genName THEN <<"vault-cluster", stamp>> ELSE clusterName[n]
        cl1 == IF setName THEN [r.cluster EXCEPT !.Name = name] ELSE r.cluster
        genID == cl1.ID = <<>>
        cl2 == IF genID THEN [cl1 EXCEPT !.ID = <<"uuid", stamp>>] ELSE cl1
        k == LoadOrGenerateKey(n, fault, stamp)
    IN
    IF k.err # ""
    THEN failed(k.err, name, r.pool, k.privKey, k.key, genName \/ genID \/ k.drew)
    ELSE
    LET genCert == NeedsCertificate(n, k.needNewCert, cl2.Certificate)
        cl3 == IF genCert
               THEN [cl2 EXCEPT !.Certificate = CreateCertificate(stamp, k.privKey[1])]
               ELSE cl2
        modified == setName \/ genID \/ genCert
        drew == genName \/ genID \/ k.drew \/ genCert
    IN
    IF modified /\ fault = "putInfo"
    THEN failed("failed to store cluster details", name, r.pool, k.privKey,
                k.key, drew)
    ELSE [err |-> "", clusterName |-> name, pool |-> r.pool, privKey |-> k.privKey,
          key |-> k.key,
          info |-> IF modified THEN <<MarshalCluster(cl3)>> ELSE storeInfo,
          drew |-> drew, wrote |-> modified]

\* The identity state after node n ran setupCluster with result s.
ApplySetup(n, s) ==
    /\ s.drew => nextRand < MaxRand
    /\ clusterName' = [clusterName EXCEPT ![n] = s.clusterName]
    /\ localClusterCertPool' = [localClusterCertPool EXCEPT ![n] = s.pool]
    /\ localClusterPrivateKey' = [localClusterPrivateKey EXCEPT ![n] = s.privKey]
    /\ storeKey' = s.key
    /\ storeInfo' = s.info
    /\ nextRand' = IF s.drew THEN nextRand + 1 ELSE nextRand
    /\ UNCHANGED <<sealed, advertiseAddr>>

\* ------------------------------------------------ cluster listeners: values
\* The addresses the host's listener factory binds.
Ports == 1..NumPorts

\* What SetClusterListenerSetupFunc can register: "bind" binds one fresh raw
\* listener per port on every invocation; "empty" is
\* func() ([]net.Listener, http.Handler, error) { return nil, nil, nil }.
SetupFuncs == {"bind", "empty"}

\* The ports some open socket is bound to.
BoundPorts == {l.port : l \in openLns}

\* lns, handler, err := c.clusterListenerSetupFunc(), invoked by call number g.
InvokeSetupFunc(f, g) ==
    IF f = "empty" THEN [err |-> "", lns |-> <<>>]
    ELSE IF BoundPorts \cap Ports # {}
    THEN [err |-> "bind: address already in use", lns |-> <<>>]
    ELSE [err |-> "", lns |-> [p \in Ports |-> [gen |-> g, port |-> p]]]

Range(seq) == {seq[i] : i \in 1..Len(seq)}

\* make(chan struct{}) by call number g
MakeChan(kind, g) == <<[kind |-> kind, gen |-> g]>>

\* What a call of the state-lock holder returned.
Returned(op, err, waited, closed) ==
    [op |-> op, err |-> err, waited |-> waited, closed |-> closed]

\* ------------------------------------------- cluster listeners: start/stop
\* Mutant of AlreadySetup: the guard against a double start is missing.
AlreadySetup_Never == FALSE

\* if c.clusterListenerShutdownCh != nil (line 293)
AlreadySetup == clusterListenerShutdownCh # <<>>

\* The error startClusterListener returns (lines 293-312), given what the
\* setup function (f) and ClusterTLSConfig (t) return when they are reached.
StartError(f, t) ==
    IF AlreadySetup THEN "cluster listeners already setup"
    ELSE IF clusterListenerSetupFunc = "nil"
    THEN "cluster listener setup function has not been set"
    ELSE IF f.err # "" THEN f.err
    ELSE t.err

\* The start reached the setup function and it returned listeners (line 303).
GotListeners(f) ==
    ~AlreadySetup /\ clusterListenerSetupFunc # "nil" /\ f.err = ""

\* Mutant of StartChannels: the channels are made before the setup function
\* and the TLS configuration are tried.
StartChannels_Early(e, g) ==
    IF e = "cluster listeners already setup"
    THEN [shutdown |-> clusterListenerShutdownCh,
          success |-> clusterListenerShutdownSuccessCh]
    ELSE [shutdown |-> MakeChan("shutdown", g), success |-> MakeChan("success", g)]

\* The two channel fields after a start that returns e (lines 326-327 are
\* reached only when no earlier step returned an error).
StartChannels(e, g) ==
    IF e = ""
    THEN [shutdown |-> MakeChan("shutdown", g), success |-> MakeChan("success", g)]
    ELSE [shutdown |-> clusterListenerShutdownCh,
          success |-> clusterListenerShutdownSuccessCh]

\* c.startClusterListener(), as call number g.
startClusterListener(g) ==
    LET f == InvokeSetupFunc(clusterListenerSetupFunc, g)
        t == ClusterTLSConfig(Self)
        e == StartError(f, t)
        chans == StartChannels(e, g)
    IN
    /\ ret' = Returned("start", e, FALSE, FALSE)
    /\ clusterListenerShutdownCh' = chans.shutdown
    /\ clusterListenerShutdownSuccessCh' = chans.success
    \* the raw listeners the setup function returned stay open whatever follows
    /\ openLns' = IF GotListeners(f) THEN openLns \cup Range(f.lns) ELSE openLns
    \* ClusterTLSConfig calls Cluster(), which fills the certificate pool
    /\ localClusterCertPool' =
          IF GotListeners(f)
          THEN [localClusterCertPool EXCEPT ![Self] = t.pool]
          ELSE localClusterCertPool
    /\ IF e = ""
       THEN /\ serveTasks' = serveTasks \cup Range(f.lns)
            /\ coord' = coord \cup
                  {[gen |-> g, tlsLns |-> f.lns, pc |-> "start",
                    ch |-> <<>>, i |-> 1]}
       ELSE UNCHANGED <<serveTasks, coord>>
    /\ UNCHANGED <<clusterListenerSetupFunc, closedChans, panicked>>

\* close(ch): closing a nil or an already closed channel panics.
ClosePanics(ch) == ch = <<>> \/ ch[1] \in closedChans
Close(ch) == IF ClosePanics(ch) THEN closedChans ELSE closedChans \cup {ch[1]}

\* Mutant of NothingToWaitFor: stop always goes on to its receive.
NothingToWaitFor_Never == FALSE

\* if c.clusterListenerShutdownSuccessCh == nil { return } (line 352)
NothingToWaitFor == clusterListenerShutdownSuccessCh = <<>>

\* stopClusterListener up to its receive (lines 344-354).
stopClusterListener_begin ==
    /\ IF clusterListenerShutdownCh # <<>>
       THEN /\ closedChans' = Close(clusterListenerShutdownCh)
            /\ panicked' = (panicked \/ ClosePanics(clusterListenerShutdownCh))
       ELSE UNCHANGED <<closedChans, panicked>>
    /\ IF NothingToWaitFor
       THEN \* return; the deferred function resets the channel
            /\ clusterListenerShutdownCh' = <<>>
            /\ ret' = Returned("stop", "", FALSE, clusterListenerShutdownCh # <<>>)
            /\ UNCHANGED <<hostPc, stopDeferred>>
       ELSE /\ hostPc' = "stop_wait"
            /\ stopDeferred' = (clusterListenerShutdownCh # <<>>)
            /\ UNCHANGED <<clusterListenerShutdownCh, ret>>
    /\ UNCHANGED <<clusterListenerSetupFunc, clusterListenerShutdownSuccessCh,
                   openLns, serveTasks, coord>>

\* Mutant of ShutdownSucceeded: stop returns without waiting for the close.
ShutdownSucceeded_NoWait == clusterListenerShutdownSuccessCh # <<>>

\* <-c.clusterListenerShutdownSuccessCh can proceed (line 355)
ShutdownSucceeded ==
    /\ clusterListenerShutdownSuccessCh # <<>>
    /\ clusterListenerShutdownSuccessCh[1] \in closedChans

\* stopClusterListener from its receive to its return (lines 355-357 and the
\* deferred functions, last registered first).
stopClusterListener_end ==
    /\ hostPc = "stop_wait"
    /\ ShutdownSucceeded
    /\ clusterListenerShutdownSuccessCh' = <<>>
    /\ clusterListenerShutdownCh' =
          IF stopDeferred THEN <<>> ELSE clusterListenerShutdownCh
    /\ stopDeferred' = FALSE
    /\ hostPc' = "idle"
    /\ ret' = Returned("stop", "", TRUE, stopDeferred)
    /\ UNCHANGED <<clusterListenerSetupFunc, closedChans, openLns, serveTasks,
                   coord, panicked>>

\* --------------------------------------------- cluster listeners: goroutines
Replace(c, d) == (coord \ {c}) \cup {d}

\* The coordinator evaluates the operand of <-c.clusterListenerShutdownCh.
CoordRead(c) ==
    /\ c.pc = "start"
    /\ coord' = Replace(c, [c EXCEPT !.pc = "recv", !.ch = clusterListenerShutdownCh])
    /\ UNCHANGED <<clusterListenerSetupFunc, clusterListenerShutdownCh,
                   clusterListenerShutdownSuccessCh, closedChans, openLns,
                   serveTasks, panicked>>
    /\ UNCHANGED <<identityVars, hostVars, forwardVars, tlsVars>>

\* Mutant of ShutdownRequested: the coordinator does not wait for the request.
ShutdownRequested_NoWait(c) == TRUE

\* A receive from a closed channel proceeds; from a nil or open one it blocks.
ShutdownRequested(c) == c.ch # <<>> /\ c.ch[1] \in closedChans

CoordRecv(c) ==
    /\ c.pc = "recv"
    /\ ShutdownRequested(c)
    /\ coord' = Replace(c, [c EXCEPT !.pc = "close"])
    /\ UNCHANGED <<clusterListenerSetupFunc, clusterListenerShutdownCh,
                   clusterListenerShutdownSuccessCh, closedChans, openLns,
                   serveTasks, panicked>>
    /\ UNCHANGED <<identityVars, hostVars, forwardVars, tlsVars>>

\* for _, tlsLn := range tlsLns { tlsLn.Close() }: one iteration.
CoordCloseListener(c) ==
    /\ c.pc = "close"
    /\ c.i <= Len(c.tlsLns)
    /\ openLns' = openLns \ {c.tlsLns[c.i]}
    /\ coord' = Replace(c, [c EXCEPT !.i = c.i + 1])
    /\ UNCHANGED <<clusterListenerSetupFunc, clusterListenerShutdownCh,
                   clusterListenerShutdownSuccessCh, closedChans, serveTasks,
                   panicked>>
    /\ UNCHANGED <<identityVars, hostVars, forwardVars, tlsVars>>

\* Mutant of AllListenersClosed: completion is signalled before the loop.
AllListenersClosed_Early(c) == TRUE

\* Completion signalled only once the serving loops of the listeners returned
AllListenersClosed_WaitServe(c) ==
    c.i > Len(c.tlsLns) /\ serveTasks \cap Range(c.tlsLns) = {}

\* The loop over tlsLns is over.
AllListenersClosed(c) == c.i > Len(c.tlsLns)

\* close(c.clusterListenerShutdownSuccessCh)
CoordSignal(c) ==
    /\ c.pc = "close"
    /\ AllListenersClosed(c)
    /\ closedChans' = Close(clusterListenerShutdownSuccessCh)
    /\ panicked' = (panicked \/ ClosePanics(clusterListenerShutdownSuccessCh))
    /\ coord' = Replace(c, [c EXCEPT !.pc = "done"])
    /\ UNCHANGED <<clusterListenerSetupFunc, clusterListenerShutdownCh,
                   clusterListenerShutdownSuccessCh, openLns, serveTasks>>
    /\ UNCHANGED <<identityVars, hostVars, forwardVars, tlsVars>>

\* go server.Serve(tlsLn): Serve returns once Accept fails on a closed listener.
ServeExit(l) ==
    /\ l \in serveTasks
    /\ l \notin openLns
    /\ serveTasks' = serveTasks \ {l}
    /\ UNCHANGED <<clusterListenerSetupFunc, clusterListenerShutdownCh,
                   clusterListenerShutdownSuccessCh, closedChans, openLns, coord,
                   panicked>>
    /\ UNCHANGED <<identityVars, hostVars, forwardVars, tlsVars>>

\* ------------------------------------- the holder of the state lock: calls
\* Calls into the core are made one at a time (the state lock); each is
\* numbered.
CanCall == hostPc = "idle" /\ ncalls < MaxCalls

\* core.SetClusterListenerSetupFunc(f)
SetClusterListenerSetupFunc(f) ==
    /\ CanCall
    /\ ncalls' = ncalls + 1
    /\ clusterListenerSetupFunc' = f
    /\ ret' = Returned("setfunc", "", FALSE, FALSE)
    /\ UNCHANGED <<clusterListenerShutdownCh, clusterListenerShutdownSuccessCh,
                   closedChans, openLns, serveTasks, coord, panicked>>
    /\ UNCHANGED <<hostPc, stopDeferred, nodeState>>
    /\ UNCHANGED <<identityVars, forwardVars, tlsVars>>

\* The barrier is unsealed / sealed.
UnsealBarrier ==
    /\ CanCall
    /\ sealed
    /\ ncalls' = ncalls + 1
    /\ sealed' = FALSE
    /\ ret' = Returned("unseal", "", FALSE, FALSE)
    /\ UNCHANGED <<storeInfo, storeKey, clusterName, advertiseAddr,
                   localClusterPrivateKey, localClusterCertPool, nextRand,
                   setupVars>>
    /\ UNCHANGED <<hostPc, stopDeferred, nodeState>>
    /\ UNCHANGED <<listenerVars, forwardVars, tlsVars>>

SealBarrier ==
    /\ CanCall
    /\ ~sealed
    /\ ncalls' = ncalls + 1
    /\ sealed' = TRUE
    /\ ret' = Returned("seal", "", FALSE, FALSE)
    /\ UNCHANGED <<storeInfo, storeKey, clusterName, advertiseAddr,
                   localClusterPrivateKey, localClusterCertPool, nextRand,
                   setupVars>>
    /\ UNCHANGED <<hostPc, stopDeferred, nodeState>>
    /\ UNCHANGED <<listenerVars, forwardVars, tlsVars>>

\* c.setupCluster() on node Self
SetupCluster(fault) ==
    /\ CanCall
    /\ ncalls' = ncalls + 1
    /\ LET s == setupCluster(Self, fault) IN
         /\ ApplySetup(Self, s)
         /\ ret' = Returned("setupCluster", s.err, FALSE, FALSE)
         /\ UNCHANGED setupVars
    /\ UNCHANGED <<hostPc, stopDeferred, nodeState>>
    /\ UNCHANGED <<listenerVars, forwardVars, tlsVars>>

\* c.startClusterListener()
Start ==
    /\ CanCall
    /\ ncalls' = ncalls + 1
    /\ startClusterListener(ncalls + 1)
    /\ UNCHANGED <<sealed, storeInfo, storeKey, clusterName, advertiseAddr,
                   localClusterPrivateKey, nextRand,
                   setupVars>>
    /\ UNCHANGED <<hostPc, stopDeferred, nodeState>>
    /\ UNCHANGED <<forwardVars, tlsVars>>

\* c.stopClusterListener() is called and runs to its return or to its receive
StopBegin ==
    /\ CanCall
    /\ ncalls' = ncalls + 1
    /\ stopClusterListener_begin
    /\ UNCHANGED nodeState
    /\ UNCHANGED <<identityVars, forwardVars, tlsVars>>

\* c.stopClusterListener() receives and returns
StopEnd ==
    /\ stopClusterListener_end
    /\ UNCHANGED <<ncalls, nodeState>>
    /\ UNCHANGED <<identityVars, forwardVars, tlsVars>>

\* ------------------------------------------------------------ initial state
\* The request-handling goroutines and the upstream addresses they are given.
Threads == 1..NumThreads
ClusterAddrs == {"https://127.0.0.1:8207", "https://127.0.0.1:8209"}

NoReturn == Returned("", "", FALSE, FALSE)
NoThreadReturn == [op |-> "", err |-> "", wlock |-> FALSE]

\* NewCore: the node's configuration is read; nothing is loaded or running.
InitIdentity ==
    /\ sealed \in BOOLEAN
    /\ storeInfo = <<>>
    /\ storeKey = <<>>
    /\ \E name \in ConfiguredNames, addr \in AdvertiseAddrs :
         /\ clusterName = [n \in Nodes |-> IF n = Self THEN name ELSE <<>>]
         /\ advertiseAddr = [n \in Nodes |->
                               IF n = Self THEN addr ELSE "http://127.0.0.1:8206"]
    /\ localClusterPrivateKey = [n \in Nodes |-> <<>>]
    /\ localClusterCertPool = [n \in Nodes |-> <<>>]
    /\ nextRand = 0
    /\ idLast = <<>>
    /\ setupPc = [n \in Nodes |-> "idle"]
    /\ setupLocal = [n \in Nodes |-> <<>>]

InitListener ==
    /\ clusterListenerSetupFunc = "nil"
    /\ clusterListenerShutdownCh = <<>>
    /\ clusterListenerShutdownSuccessCh = <<>>
    /\ closedChans = {}
    /\ openLns = {}
    /\ serveTasks = {}
    /\ coord = {}
    /\ panicked = FALSE

InitHost ==
    /\ hostPc = "idle"
    /\ stopDeferred = FALSE
    /\ ret = NoReturn
    /\ ncalls = 0
    /\ nodeState = "sealed"

InitForward ==
    /\ requestForwardingConnection = <<>>
    /\ clientsMade = 0
    /\ rwReaders = {}
    /\ rwWriter = <<>>
    /\ pc = [t \in Threads |-> "idle"]
    /\ argAddr = [t \in Threads |-> ""]
    /\ fwdSnapshot = [t \in Threads |-> <<>>]
    /\ fwdStable = [t \in Threads |-> <<>>]
    /\ fwdTarget = [t \in Threads |-> <<>>]
    /\ thrRet = NoThreadReturn
    /\ prevAddr = <<>>
    /\ lastRefreshed = <<>>

InitTLS == tlsConfig = [n \in Nodes |-> <<>>]

Init ==
    InitIdentity /\ InitListener /\ InitHost /\ InitForward /\ InitTLS /\ sealed

\* ------------------------------------- specification: the listener lifecycle
\* Any sequence of calls made one at a time, with the goroutines they spawn.
Next ==
    \/ \E f \in SetupFuncs : SetClusterListenerSetupFunc(f)
    \/ UnsealBarrier
    \/ SealBarrier
    \/ \E fault \in Faults : SetupCluster(fault)
    \/ Start
    \/ StopBegin
    \/ StopEnd
    \/ \E c \in coord : CoordRead(c)
    \/ \E c \in coord : CoordRecv(c)
    \/ \E c \in coord : CoordCloseListener(c)
    \/ \E c \in coord : CoordSignal(c)
    \/ \E l \in serveTasks : ServeExit(l)

Spec == Init /\ [][Next]_vars

\* The same calls with the coordinator goroutine scheduled fairly and the
\* caller of stop resuming once its receive can proceed; nothing is assumed
\* about the serving loops.
CoordFairness ==
    /\ WF_vars(\E c \in coord : CoordRead(c))
    /\ WF_vars(\E c \in coord : CoordRecv(c))
    /\ WF_vars(\E c \in coord : CoordCloseListener(c))
    /\ WF_vars(\E c \in coord : CoordSignal(c))
    /\ WF_vars(StopEnd)

SpecFair == Init /\ [][Next]_vars /\ CoordFairness

\* --------------------------------------- specification: the node lifecycle
\* The surrounding orchestrator: on a transition to active it runs
\* setupCluster and then startClusterListener, and an activation whose start
\* fails is abandoned; on a transition away from active it runs
\* stopClusterListener.  nodeState is "sealed", "standby" or "active", or the
\* transition under way.
HostUnseal ==
    /\ nodeState = "sealed"
    /\ CanCall
    /\ ncalls' = ncalls + 1
    /\ sealed' = FALSE
    /\ nodeState' = "standby"
    /\ ret' = Returned("unseal", "", FALSE, FALSE)
    /\ UNCHANGED <<storeInfo, storeKey, clusterName, advertiseAddr,
                   localClusterPrivateKey, localClusterCertPool, nextRand,
                   setupVars>>
    /\ UNCHANGED <<hostPc, stopDeferred>>
    /\ UNCHANGED <<listenerVars, forwardVars, tlsVars>>

HostActivateSetup(fault) ==
    /\ nodeState = "standby"
    /\ CanCall
    /\ ncalls' = ncalls + 1
    /\ LET s == setupCluster(Self, fault) IN
         /\ ApplySetup(Self, s)
         /\ ret' = Returned("setupCluster", s.err, FALSE, FALSE)
         /\ UNCHANGED setupVars
         /\ nodeState' = IF s.err = "" THEN "activating" ELSE "standby"
    /\ UNCHANGED <<hostPc, stopDeferred>>
    /\ UNCHANGED <<listenerVars, forwardVars, tlsVars>>

HostActivateStart ==
    /\ nodeState = "activating"
    /\ CanCall
    /\ ncalls' = ncalls + 1
    /\ startClusterListener(ncalls + 1)
    /\ nodeState' = IF ret'.err = "" THEN "active" ELSE "standby"
    /\ UNCHANGED <<sealed, storeInfo, storeKey, clusterName, advertiseAddr,
                   localClusterPrivateKey, nextRand,
                   setupVars>>
    /\ UNCHANGED <<hostPc, stopDeferred>>
    /\ UNCHANGED <<forwardVars, tlsVars>>

\* Step-down (to standby) or seal of the active node: stop is called.
HostLeaveActive(to) ==
    /\ nodeState = "active"
    /\ CanCall
    /\ ncalls' = ncalls + 1
    /\ stopClusterListener_begin
    /\ nodeState' = IF hostPc' = "stop_wait"
                    THEN (IF to = "sealed" THEN "sealing" ELSE "stepping_down")
                    ELSE to
    /\ sealed' = (hostPc' = "idle" /\ to = "sealed")
    /\ UNCHANGED <<storeInfo, storeKey, clusterName, advertiseAddr,
                   localClusterPrivateKey, localClusterCertPool, nextRand,
                   setupVars>>
    /\ UNCHANGED <<forwardVars, tlsVars>>

\* stop returns and the transition completes.
HostLeftActive ==
    /\ nodeState \in {"sealing", "stepping_down"}
    /\ stopClusterListener_end
    /\ nodeState' = IF nodeState = "sealing" THEN "sealed" ELSE "standby"
    /\ sealed' = (nodeState = "sealing")
    /\ UNCHANGED ncalls
    /\ UNCHANGED <<storeInfo, storeKey, clusterName, advertiseAddr,
                   localClusterPrivateKey, localClusterCertPool, nextRand,
                   setupVars>>
    /\ UNCHANGED <<forwardVars, tlsVars>>

\* Seal of a standby node: no listener is running.
HostSealStandby ==
    /\ nodeState = "standby"
    /\ CanCall
    /\ ncalls' = ncalls + 1
    /\ sealed' = TRUE
    /\ nodeState' = "sealed"
    /\ ret' = Returned("seal", "", FALSE, FALSE)
    /\ UNCHANGED <<storeInfo, storeKey, clusterName, advertiseAddr,
                   localClusterPrivateKey, localClusterCertPool, nextRand,
                   setupVars>>
    /\ UNCHANGED <<hostPc, stopDeferred>>
    /\ UNCHANGED <<listenerVars, forwardVars, tlsVars>>

NextHost ==
    \/ \E f \in SetupFuncs : SetClusterListenerSetupFunc(f)
    \/ HostUnseal
    \/ \E fault \in Faults : HostActivateSetup(fault)
    \/ HostActivateStart
    \/ \E to \in {"standby", "sealed"} : HostLeaveActive(to)
    \/ HostLeftActive
    \/ HostSealStandby
    \/ \E c \in coord : CoordRead(c)
    \/ \E c \in coord : CoordRecv(c)
    \/ \E c \in coord : CoordCloseListener(c)
    \/ \E c \in coord : CoordSignal(c)
    \/ \E l \in serveTasks : ServeExit(l)

SpecHost == Init /\ [][NextHost]_vars

\* ------------------------------- specification: identity on shared storage
\* Nodes that share the storage call setupCluster one call at a time; nodes
\* restart, and the barrier is sealed and unsealed.  The backend may fail a
\* barrier operation of a call of node Self.
IdSetup(n, fault) ==
    /\ n # Self => fault = "none"
    /\ LET s == setupCluster(n, fault) IN
         /\ ApplySetup(n, s)
         /\ idLast' = IF s.err # "" THEN <<n, "error", s.err>>
                       ELSE IF idLast # <<>> /\ idLast[1] = n /\ idLast[2] # "error"
                       THEN <<n, "again">>
                       ELSE <<n, "first">>
    /\ UNCHANGED <<setupPc, setupLocal>>
    /\ UNCHANGED <<listenerVars, hostVars, forwardVars, tlsVars>>

\* A node restarts: what it held in memory is lost and its configuration
\* (cluster name, advertise address) is read again.  The configuration of
\* node Self may have been edited; the other nodes keep theirs.
IdRestart(n, name, addr) ==
    /\ n # Self => /\ addr = advertiseAddr[n]
                   /\ name = IF clusterName[n] \in ConfiguredNames
                             THEN clusterName[n] ELSE <<>>
    /\ clusterName' = [clusterName EXCEPT ![n] = name]
    /\ advertiseAddr' = [advertiseAddr EXCEPT ![n] = addr]
    /\ localClusterPrivateKey' = [localClusterPrivateKey EXCEPT ![n] = <<>>]
    /\ localClusterCertPool' = [localClusterCertPool EXCEPT ![n] = <<>>]
    /\ idLast' = <<>>
    /\ UNCHANGED <<sealed, storeInfo, storeKey, nextRand, setupPc, setupLocal>>
    /\ UNCHANGED <<listenerVars, hostVars, forwardVars, tlsVars>>

IdUnseal ==
    /\ sealed
    /\ sealed' = FALSE
    /\ idLast' = <<>>
    /\ UNCHANGED <<storeInfo, storeKey, clusterName, advertiseAddr,
                   localClusterPrivateKey, localClusterCertPool, nextRand,
                   setupPc, setupLocal>>
    /\ UNCHANGED <<listenerVars, hostVars, forwardVars, tlsVars>>

IdSeal ==
    /\ ~sealed
    /\ sealed' = TRUE
    /\ idLast' = <<>>
    /\ UNCHANGED <<storeInfo, storeKey, clusterName, advertiseAddr,
                   localClusterPrivateKey, localClusterCertPool, nextRand,
                   setupPc, setupLocal>>
    /\ UNCHANGED <<listenerVars, hostVars, forwardVars, tlsVars>>

NextIdentity ==
    \/ \E n \in Nodes, fault \in Faults : IdSetup(n, fault)
    \/ \E n \in Nodes, name \in ConfiguredNames, addr \in AdvertiseAddrs :
           IdRestart(n, name, addr)
    \/ IdUnseal
    \/ IdSeal

SpecIdentity == Init /\ [][NextIdentity]_vars

\* ------------------- specification: identity on storage found as it is
\* The nodes start on a storage that may already hold an identity record and
\* a key record, the key record possibly lacking components or carrying
\* another type tag; they call setupCluster one call at a time and restart.
KeyTypes == {corePrivateKeyTypeP521, "p256"}
KeyComponents == {<<>>, <<0>>}
StoredKeyRecords == [type : KeyTypes, x : KeyComponents, y : KeyComponents,
                     d : KeyComponents]
StoredInfoRecord ==
    MarshalCluster([Name |-> <<"vault-cluster", 0>>, ID |-> <<"uuid", 0>>,
                    Certificate |-> <<>>])

InitStoredKey ==
    /\ InitListener /\ InitHost /\ InitForward /\ InitTLS
    /\ sealed = FALSE
    /\ storeInfo \in {<<>>, <<StoredInfoRecord>>}
    /\ storeKey \in {<<>>} \cup {<<r>> : r \in StoredKeyRecords}
    /\ \E name \in ConfiguredNames, addr \in AdvertiseAddrs :
         /\ clusterName = [n \in Nodes |-> IF n = Self THEN name ELSE <<>>]
         /\ advertiseAddr = [n \in Nodes |->
                               IF n = Self THEN addr ELSE "http://127.0.0.1:8206"]
    /\ localClusterPrivateKey = [n \in Nodes |-> <<>>]
    /\ localClusterCertPool = [n \in Nodes |-> <<>>]
    /\ nextRand = 0
    /\ idLast = <<>>
    /\ setupPc = [n \in Nodes |-> "idle"]
    /\ setupLocal = [n \in Nodes |-> <<>>]

NextStoredKey ==
    \/ \E n \in Nodes, fault \in Faults : IdSetup(n, fault)
    \/ \E n \in Nodes, name \in ConfiguredNames, addr \in AdvertiseAddrs :
           IdRestart(n, name, addr)

SpecStoredKey == InitStoredKey /\ [][NextStoredKey]_vars

\* --------------------- specification: setupCluster calls that interleave
\* Each node's calls are serialized by its own state lock, but nothing in
\* setupCluster orders the barrier operations of calls made by different
\* nodes.  A call is four steps, one per barrier operation.
SetSetupPc(n, p) == setupPc' = [setupPc EXCEPT ![n] = p]
SetSetupLocal(n, l) == setupLocal' = [setupLocal EXCEPT ![n] = l]

\* Lines 107-148: c.Cluster() (the Get of the identity record), then the name
\* and the id.
SetupReadInfo(n) ==
    /\ setupPc[n] = "idle"
    /\ nextRand < MaxRand
    /\ LET r == Cluster(n)
           stamp == nextRand + 1
           setName == r.cluster.Name = <<>>
           genName == setName /\ clusterName[n] = <<>>
           name == IF genName THEN <<"vault-cluster", stamp>> ELSE clusterName[n]
           cl1 == IF setName THEN [r.cluster EXCEPT !.Name = name] ELSE r.cluster
           genID == cl1.ID = <<>>
           cl2 == IF genID THEN [cl1 EXCEPT !.ID = <<"uuid", stamp>>] ELSE cl1
       IN /\ r.err = ""
          /\ clusterName' = [clusterName EXCEPT ![n] = name]
          /\ localClusterCertPool' = [localClusterCertPool EXCEPT ![n] = r.pool]
          /\ SetSetupLocal(n, <<[stamp |-> stamp, cluster |-> cl2,
                                 modified |-> setName \/ genID,
                                 needNewCert |-> FALSE, key |-> <<>>]>>)
    /\ nextRand' = nextRand + 1
    /\ SetSetupPc(n, "key")
    /\ UNCHANGED <<sealed, storeInfo, storeKey, advertiseAddr,
                   localClusterPrivateKey, idLast>>
    /\ UNCHANGED <<listenerVars, hostVars, forwardVars, tlsVars>>

\* Lines 151-157 and 190-213: the Get of the key record; a stored key is
\* decoded, and a key is generated if there is none.
SetupGetKey(n) ==
    /\ setupPc[n] = "key"
    /\ LET l == setupLocal[n][1]
           k == LoadOrGenerateKey(n, "none", l.stamp)
       IN /\ k.err = ""
          /\ IF k.drew
             THEN /\ SetSetupLocal(n, <<[l EXCEPT !.key = k.key]>>)
                  /\ SetSetupPc(n, "putKey")
                  /\ UNCHANGED localClusterPrivateKey
             ELSE /\ localClusterPrivateKey' =
                        [localClusterPrivateKey EXCEPT ![n] = k.privKey]
                  /\ SetSetupPc(n, "info")
                  /\ UNCHANGED setupLocal
    /\ UNCHANGED <<sealed, storeInfo, storeKey, clusterName, advertiseAddr,
                   localClusterCertPool, nextRand, idLast>>
    /\ UNCHANGED <<listenerVars, hostVars, forwardVars, tlsVars>>

\* Lines 179-189: the generated key is Put and kept in memory.
SetupPutKey(n) ==
    /\ setupPc[n] = "putKey"
    /\ LET l == setupLocal[n][1] IN
         /\ storeKey' = l.key
         /\ localClusterPrivateKey' =
               [localClusterPrivateKey EXCEPT ![n] =
                  <<[X |-> l.stamp, Y |-> l.stamp, D |-> l.stamp]>>]
         /\ SetSetupLocal(n, <<[l EXCEPT !.needNewCert = TRUE]>>)
    /\ SetSetupPc(n, "info")
    /\ UNCHANGED <<sealed, storeInfo, clusterName, advertiseAddr,
                   localClusterCertPool, nextRand, idLast>>
    /\ UNCHANGED <<listenerVars, hostVars, forwardVars, tlsVars>>

\* SetupPutInfo making the Put on every call (line 262 without its test)
SetupPutInfo_Always(n) ==
    /\ setupPc[n] = "info"
    /\ LET l == setupLocal[n][1]
           genCert == NeedsCertificate(n, l.needNewCert, l.cluster.Certificate)
           cl3 == IF genCert
                  THEN [l.cluster EXCEPT !.Certificate =
                          CreateCertificate(l.stamp, localClusterPrivateKey[n][1])]
                  ELSE l.cluster
       IN storeInfo' = <<MarshalCluster(cl3)>>
    /\ SetSetupLocal(n, <<>>)
    /\ SetSetupPc(n, "idle")
    /\ idLast' = <<n, "first">>
    /\ UNCHANGED <<sealed, storeKey, clusterName, advertiseAddr,
                   localClusterPrivateKey, localClusterCertPool, nextRand>>
    /\ UNCHANGED <<listenerVars, hostVars, forwardVars, tlsVars>>

\* Lines 217-281: the certificate, and the Put of the identity record.
SetupPutInfo(n) ==
    /\ setupPc[n] = "info"
    /\ LET l == setupLocal[n][1]
           genCert == NeedsCertificate(n, l.needNewCert, l.cluster.Certificate)
           cl3 == IF genCert
                  THEN [l.cluster EXCEPT !.Certificate =
                          CreateCertificate(l.stamp, localClusterPrivateKey[n][1])]
                  ELSE l.cluster
       IN storeInfo' = IF l.modified \/ genCert
                       THEN <<MarshalCluster(cl3)>> ELSE storeInfo
    /\ SetSetupLocal(n, <<>>)
    /\ SetSetupPc(n, "idle")
    /\ idLast' = <<n, "first">>
    /\ UNCHANGED <<sealed, storeKey, clusterName, advertiseAddr,
                   localClusterPrivateKey, localClusterCertPool, nextRand>>
    /\ UNCHANGED <<listenerVars, hostVars, forwardVars, tlsVars>>

\* The barrier operation that node Self's call is about to make fails and the
\* call returns the error (lines 156, 185, 277); at the last position a Put
\* is made only if the record was modified.
SetupFails(n) ==
    /\ n = Self
    /\ setupPc[n] \in {"key", "putKey", "info"}
    /\ setupPc[n] = "key" => localClusterPrivateKey[n] = <<>>
    /\ setupPc[n] = "info" =>
          LET l == setupLocal[n][1] IN
          l.modified \/ NeedsCertificate(n, l.needNewCert, l.cluster.Certificate)
    /\ SetSetupLocal(n, <<>>)
    /\ SetSetupPc(n, "idle")
    /\ idLast' = <<n, "error",
                   CASE setupPc[n] = "key" -> "failed to read local cluster key path"
                     [] setupPc[n] = "putKey" -> "failed to store local cluster key"
                     [] OTHER -> "failed to store cluster details">>
    /\ UNCHANGED <<sealed, storeInfo, storeKey, clusterName, advertiseAddr,
                   localClusterPrivateKey, localClusterCertPool, nextRand>>
    /\ UNCHANGED <<listenerVars, hostVars, forwardVars, tlsVars>>

\* Unsealed nodes; nothing is stored or loaded.
InitInterleaved ==
    /\ InitIdentity /\ InitListener /\ InitHost /\ InitForward /\ InitTLS
    /\ ~sealed

NextInterleaved ==
    \/ \E n \in Nodes : SetupReadInfo(n)
    \/ \E n \in Nodes : SetupGetKey(n)
    \/ \E n \in Nodes : SetupPutKey(n)
    \/ \E n \in Nodes : SetupPutInfo(n)
    \/ \E n \in Nodes : SetupFails(n)

SpecInterleaved == InitInterleaved /\ [][NextInterleaved]_vars

\* ------------------------------------------------------ request forwarding
ErrCannotForward == "cannot forward request; no connection or address not known"

\* The addresses a refresh can be given: a node's cluster address, or "".
UpstreamAddrs == ClusterAddrs \cup {""}

\* The first checks without the case of no connection and an empty address
UpToDate_ConnectionOnly(conn, addr) == conn # <<>> /\ conn[1].clusterAddr = addr

\* The first checks of refreshRequestForwardingConnection, made under the read
\* lock (lines 403-411): nothing has to change.
UpToDate(conn, addr) ==
    \/ conn = <<>> /\ addr = ""
    \/ conn # <<>> /\ conn[1].clusterAddr = addr

\* The slow path without the assignment of line 448 to an existing connection
RefreshUnderLock_KeepAddr(conn, addr, t) ==
    IF conn # <<>> /\ conn[1].clusterAddr = addr
    THEN [err |-> "", conn |-> conn, built |-> FALSE, tried |-> FALSE]
    ELSE IF addr = ""
    THEN [err |-> "", conn |-> <<>>, built |-> FALSE, tried |-> FALSE]
    ELSE IF conn = <<>>
    THEN IF t.err # ""
         THEN [err |-> t.err, conn |-> conn, built |-> FALSE, tried |-> TRUE]
         ELSE [err |-> "",
               conn |-> <<[client |-> [id |-> clientsMade + 1, tls |-> t.cfg[1]],
                           clusterAddr |-> addr]>>,
               built |-> TRUE, tried |-> TRUE]
    ELSE [err |-> "", conn |-> conn, built |-> FALSE, tried |-> FALSE]

\* The slow path with lines 423-426 clearing the address instead of the pointer
RefreshUnderLock_ClearAddr(conn, addr, t) ==
    IF conn # <<>> /\ conn[1].clusterAddr = addr
    THEN [err |-> "", conn |-> conn, built |-> FALSE, tried |-> FALSE]
    ELSE IF addr = ""
    THEN [err |-> "",
          conn |-> IF conn = <<>> THEN conn
                   ELSE <<[conn[1] EXCEPT !.clusterAddr = ""]>>,
          built |-> FALSE, tried |-> FALSE]
    ELSE IF conn = <<>>
    THEN IF t.err # ""
         THEN [err |-> t.err, conn |-> conn, built |-> FALSE, tried |-> TRUE]
         ELSE [err |-> "",
               conn |-> <<[client |-> [id |-> clientsMade + 1, tls |-> t.cfg[1]],
                           clusterAddr |-> addr]>>,
               built |-> TRUE, tried |-> TRUE]
    ELSE [err |-> "", conn |-> <<[conn[1] EXCEPT !.clusterAddr = addr]>>,
          built |-> FALSE, tried |-> FALSE]

\* The slow path acting on what the caller saw under the read lock: a client
\* is built without looking at the connection again (no test at 417 or 428)
RefreshUnderLock_NoSecondLook(conn, addr, t) ==
    IF addr = ""
    THEN [err |-> "", conn |-> <<>>, built |-> FALSE, tried |-> FALSE]
    ELSE IF t.err # ""
    THEN [err |-> t.err, conn |-> conn, built |-> FALSE, tried |-> TRUE]
    ELSE [err |-> "",
          conn |-> <<[client |-> [id |-> clientsMade + 1, tls |-> t.cfg[1]],
                      clusterAddr |-> addr]>>,
          built |-> TRUE, tried |-> TRUE]

\* The slow path storing the connection before the errors of lines 430 and
\* 437 are looked at
RefreshUnderLock_KeepFailed(conn, addr, t) ==
    IF conn # <<>> /\ conn[1].clusterAddr = addr
    THEN [err |-> "", conn |-> conn, built |-> FALSE, tried |-> FALSE]
    ELSE IF addr = ""
    THEN [err |-> "", conn |-> <<>>, built |-> FALSE, tried |-> FALSE]
    ELSE IF conn = <<>>
    THEN IF t.err # ""
         THEN [err |-> t.err,
               conn |-> <<[client |-> [id |-> clientsMade + 1, tls |-> <<>>],
                           clusterAddr |-> ""]>>,
               built |-> TRUE, tried |-> TRUE]
         ELSE [err |-> "",
               conn |-> <<[client |-> [id |-> clientsMade + 1, tls |-> t.cfg[1]],
                           clusterAddr |-> addr]>>,
               built |-> TRUE, tried |-> TRUE]
    ELSE [err |-> "", conn |-> <<[conn[1] EXCEPT !.clusterAddr = addr]>>,
          built |-> FALSE, tried |-> FALSE]

\* The slow path returning after the connection was made, before the
\* assignment of its address (lines 447-449 skipped for a new connection)
RefreshUnderLock_NoAddrOnCreate(conn, addr, t) ==
    IF conn # <<>> /\ conn[1].clusterAddr = addr
    THEN [err |-> "", conn |-> conn, built |-> FALSE, tried |-> FALSE]
    ELSE IF addr = ""
    THEN [err |-> "", conn |-> <<>>, built |-> FALSE, tried |-> FALSE]
    ELSE IF conn = <<>>
    THEN IF t.err # ""
         THEN [err |-> t.err, conn |-> conn, built |-> FALSE, tried |-> TRUE]
         ELSE [err |-> "",
               conn |-> <<[client |-> [id |-> clientsMade + 1, tls |-> t.cfg[1]],
                           clusterAddr |-> ""]>>,
               built |-> TRUE, tried |-> TRUE]
    ELSE [err |-> "", conn |-> <<[conn[1] EXCEPT !.clusterAddr = addr]>>,
          built |-> FALSE, tried |-> FALSE]

\* The slow path building a client for every new address (no nil test at 428)
RefreshUnderLock_Rebuild(conn, addr, t) ==
    IF conn # <<>> /\ conn[1].clusterAddr = addr
    THEN [err |-> "", conn |-> conn, built |-> FALSE, tried |-> FALSE]
    ELSE IF addr = ""
    THEN [err |-> "", conn |-> <<>>, built |-> FALSE, tried |-> FALSE]
    ELSE IF t.err # ""
    THEN [err |-> t.err, conn |-> conn, built |-> FALSE, tried |-> TRUE]
    ELSE [err |-> "",
          conn |-> <<[client |-> [id |-> clientsMade + 1, tls |-> t.cfg[1]],
                      clusterAddr |-> addr]>>,
          built |-> TRUE, tried |-> TRUE]

\* The body of the slow path (lines 417-451), run under the write lock: the
\* error returned, the connection left behind, and whether a client was built.
RefreshUnderLock(conn, addr, t) ==
    IF conn # <<>> /\ conn[1].clusterAddr = addr
    THEN [err |-> "", conn |-> conn, built |-> FALSE, tried |-> FALSE]
    ELSE IF addr = ""
    THEN [err |-> "", conn |-> <<>>, built |-> FALSE, tried |-> FALSE]
    ELSE IF conn = <<>>
    THEN IF t.err # ""
         THEN [err |-> t.err, conn |-> conn, built |-> FALSE, tried |-> TRUE]
         ELSE [err |-> "",
               conn |-> <<[client |-> [id |-> clientsMade + 1, tls |-> t.cfg[1]],
                           clusterAddr |-> addr]>>,
               built |-> TRUE, tried |-> TRUE]
    ELSE [err |-> "", conn |-> <<[conn[1] EXCEPT !.clusterAddr = addr]>>,
          built |-> FALSE, tried |-> FALSE]

\* A Lock() that does not wait for the readers
ReadersGone_NoWait == TRUE

\* sync.RWMutex: RLock waits while a writer holds or awaits the lock; Lock
\* first excludes new readers and then waits for the readers to leave.
CanRLock == rwWriter = <<>>
CanLock == rwWriter = <<>>
ReadersGone == rwReaders = {}

\* The pcs of a call of refreshRequestForwardingConnection
RefreshPcs == {"r_check", "r_lock", "r_lock_wait", "r_slow"}

\* A refresh with another address than a is under way.
RefreshingOther(a) ==
    \E u \in Threads : pc[u] \in RefreshPcs /\ argAddr[u] # a

\* A call of thread t returns: its locals are gone.
Return(t, op, err, wlock) ==
    /\ pc' = [pc EXCEPT ![t] = "idle"]
    /\ thrRet' = [op |-> op, err |-> err, wlock |-> wlock]
    /\ argAddr' = [argAddr EXCEPT ![t] = ""]
    /\ fwdSnapshot' = [fwdSnapshot EXCEPT ![t] = <<>>]
    /\ fwdStable' = [fwdStable EXCEPT ![t] = <<>>]
    /\ fwdTarget' = [fwdTarget EXCEPT ![t] = <<>>]

locals == <<argAddr, fwdSnapshot, fwdStable, fwdTarget>>

\* c.refreshRequestForwardingConnection(addr) is called and takes the read
\* lock.  (A call is made only while it could still build a client within
\* MaxClients.)
RefreshCall(t, addr) ==
    /\ pc[t] = "idle"
    /\ clientsMade + Cardinality({u \in Threads : pc[u] \in RefreshPcs}) < MaxClients
    /\ CanRLock
    /\ rwReaders' = rwReaders \cup {t}
    /\ argAddr' = [argAddr EXCEPT ![t] = addr]
    /\ fwdSnapshot' = [fwdSnapshot EXCEPT ![t] = requestForwardingConnection]
    /\ pc' = [pc EXCEPT ![t] = "r_check"]
    /\ UNCHANGED <<requestForwardingConnection, clientsMade, rwWriter, fwdStable,
                   fwdTarget, thrRet, prevAddr, lastRefreshed>>
    /\ UNCHANGED <<identityVars, listenerVars, hostVars, tlsVars>>

\* The first checks going on to Lock() without the RUnlock() of line 414
RefreshCheck_KeepRLock(t) ==
    /\ pc[t] = "r_check"
    /\ IF UpToDate(requestForwardingConnection, argAddr[t])
       THEN /\ Return(t, "refresh", "", FALSE)
            /\ rwReaders' = rwReaders \ {t}
            /\ lastRefreshed' = <<argAddr[t]>>
       ELSE /\ pc' = [pc EXCEPT ![t] = "r_lock"]
            /\ fwdSnapshot' = [fwdSnapshot EXCEPT ![t] = <<>>]
            /\ UNCHANGED <<rwReaders, thrRet, lastRefreshed, argAddr, fwdStable,
                           fwdTarget>>
    /\ UNCHANGED <<requestForwardingConnection, clientsMade, rwWriter, prevAddr>>
    /\ UNCHANGED <<identityVars, listenerVars, hostVars, tlsVars>>

\* Lines 403-414: return nil, or give up the read lock to take the write lock.
RefreshCheck(t) ==
    /\ pc[t] = "r_check"
    /\ rwReaders' = rwReaders \ {t}
    /\ IF UpToDate(requestForwardingConnection, argAddr[t])
       THEN /\ Return(t, "refresh", "", FALSE)
            /\ lastRefreshed' = <<argAddr[t]>>
       ELSE /\ pc' = [pc EXCEPT ![t] = "r_lock"]
            /\ fwdSnapshot' = [fwdSnapshot EXCEPT ![t] = <<>>]
            /\ UNCHANGED <<thrRet, lastRefreshed, argAddr, fwdStable, fwdTarget>>
    /\ UNCHANGED <<requestForwardingConnection, clientsMade, rwWriter, prevAddr>>
    /\ UNCHANGED <<identityVars, listenerVars, hostVars, tlsVars>>

\* Line 415, Lock(): new readers are excluded ...
RefreshLock(t) ==
    /\ pc[t] = "r_lock"
    /\ CanLock
    /\ rwWriter' = <<t>>
    /\ pc' = [pc EXCEPT ![t] = "r_lock_wait"]
    /\ UNCHANGED <<requestForwardingConnection, clientsMade, rwReaders, thrRet,
                   prevAddr, lastRefreshed, locals>>
    /\ UNCHANGED <<identityVars, listenerVars, hostVars, tlsVars>>

\* ... and the lock is held once the readers have left.
RefreshLocked(t) ==
    /\ pc[t] = "r_lock_wait"
    /\ ReadersGone
    /\ pc' = [pc EXCEPT ![t] = "r_slow"]
    /\ UNCHANGED <<requestForwardingConnection, clientsMade, rwReaders, rwWriter,
                   thrRet, prevAddr, lastRefreshed, locals>>
    /\ UNCHANGED <<identityVars, listenerVars, hostVars, tlsVars>>

\* What http2.ConfigureTransport(tp) may return for the new transport
\* (line 436): nil or an error.
ConfigureTransportResults == {"", "protocol https already registered"}

\* Lines 417-451 and the deferred Unlock.
RefreshSlow(t, h2err) ==
    /\ pc[t] = "r_slow"
    /\ LET tls0 == ClusterTLSConfig(Self)
           tls == IF tls0.err = "" /\ h2err # ""
                  THEN [tls0 EXCEPT !.err = h2err, !.cfg = NoTLSConfig]
                  ELSE tls0
           r == RefreshUnderLock(requestForwardingConnection, argAddr[t], tls)
       IN /\ requestForwardingConnection' = r.conn
          /\ clientsMade' = IF r.built THEN clientsMade + 1 ELSE clientsMade
          /\ localClusterCertPool' =
                IF r.tried
                THEN [localClusterCertPool EXCEPT ![Self] = tls.pool]
                ELSE localClusterCertPool
          /\ Return(t, "refresh", r.err, TRUE)
          /\ lastRefreshed' = IF r.err = "" THEN <<argAddr[t]>> ELSE <<>>
    /\ rwWriter' = <<>>
    /\ prevAddr' =
          LET old == requestForwardingConnection
              new == requestForwardingConnection'
          IN IF old = <<>> \/ new = <<>> THEN <<>>
             ELSE IF new[1].clusterAddr # old[1].clusterAddr
             THEN <<old[1].clusterAddr>>
             ELSE prevAddr
    /\ UNCHANGED rwReaders
    /\ UNCHANGED <<sealed, storeInfo, storeKey, clusterName, advertiseAddr,
                   localClusterPrivateKey, nextRand,
                   setupVars>>
    /\ UNCHANGED <<listenerVars, hostVars, tlsVars>>

\* ForwardRequest without the nil check of line 459
NoConnection_Never(conn) == FALSE

\* if c.requestForwardingConnection == nil (line 459)
NoConnection(conn) == conn = <<>>

\* c.ForwardRequest(req) is called and takes the read lock (line 457).
ForwardCall(t) ==
    /\ pc[t] = "idle"
    /\ CanRLock
    /\ rwReaders' = rwReaders \cup {t}
    /\ fwdSnapshot' = [fwdSnapshot EXCEPT ![t] = requestForwardingConnection]
    /\ fwdStable' = [fwdStable EXCEPT ![t] =
                       IF lastRefreshed # <<>> /\ ~RefreshingOther(lastRefreshed[1])
                       THEN lastRefreshed ELSE <<>>]
    /\ pc' = [pc EXCEPT ![t] = "f_check"]
    /\ UNCHANGED <<requestForwardingConnection, clientsMade, rwWriter, argAddr,
                   fwdTarget, thrRet, prevAddr, lastRefreshed>>
    /\ UNCHANGED <<identityVars, listenerVars, hostVars, tlsVars>>

\* Lines 459-472: ErrCannotForward, or the forwarded request is generated for
\* the stored address and handed to the client (Do).
ForwardCheck(t) ==
    /\ pc[t] = "f_check"
    /\ LET conn == requestForwardingConnection
           return(e) == /\ Return(t, "forward", e, FALSE)
                        /\ rwReaders' = rwReaders \ {t}
       IN IF NoConnection(conn) THEN return(ErrCannotForward)
          ELSE IF conn = <<>> THEN return("panic: nil pointer dereference")
          ELSE IF conn[1].clusterAddr = "" THEN return(ErrCannotForward)
          ELSE /\ fwdTarget' = [fwdTarget EXCEPT ![t] =
                                  <<[addr |-> conn[1].clusterAddr,
                                     client |-> conn[1].client.id]>>]
               /\ pc' = [pc EXCEPT ![t] = "f_do"]
               /\ UNCHANGED <<rwReaders, thrRet, argAddr, fwdSnapshot, fwdStable>>
    /\ UNCHANGED <<requestForwardingConnection, clientsMade, rwWriter,
                   prevAddr, lastRefreshed>>
    /\ UNCHANGED <<identityVars, listenerVars, hostVars, tlsVars>>

\* The round trip ends (a response or a transport error) and the deferred
\* RUnlock runs.
ForwardDone(t, err) ==
    /\ pc[t] = "f_do"
    /\ Return(t, "forward", err, FALSE)
    /\ rwReaders' = rwReaders \ {t}
    /\ UNCHANGED <<requestForwardingConnection, clientsMade, rwWriter, prevAddr,
                   lastRefreshed>>
    /\ UNCHANGED <<identityVars, listenerVars, hostVars, tlsVars>>

\* The forwarding node or the node that is active (any other node: they are
\* interchangeable) runs setupCluster while requests are being handled.
ActivePeer == CHOOSE n \in Nodes : n # Self
NodeSetsUpCluster(n) ==
    /\ ApplySetup(n, setupCluster(n, "none"))
    /\ UNCHANGED setupVars
    /\ UNCHANGED <<listenerVars, hostVars, forwardVars, tlsVars>>

\* An unsealed standby node configured for clustering; nothing is loaded.
InitStandby ==
    /\ InitIdentity /\ InitListener /\ InitHost /\ InitForward /\ InitTLS
    /\ ~sealed
    /\ clusterName[Self] = <<>>
    /\ advertiseAddr[Self] # ""

\* ------------------------------------ specification: request forwarding
NextForward ==
    \/ \E t \in Threads, addr \in UpstreamAddrs : RefreshCall(t, addr)
    \/ \E t \in Threads : RefreshCheck(t)
    \/ \E t \in Threads : RefreshLock(t)
    \/ \E t \in Threads : RefreshLocked(t)
    \/ \E t \in Threads, h2err \in ConfigureTransportResults : RefreshSlow(t, h2err)
    \/ \E t \in Threads : ForwardCall(t)
    \/ \E t \in Threads : ForwardCheck(t)
    \/ \E t \in Threads, err \in {"", "transport error"} : ForwardDone(t, err)
    \/ \E n \in {Self, ActivePeer} : NodeSetsUpCluster(n)

SpecForward == InitStandby /\ [][NextForward]_vars

\* The same calls with every goroutine that is inside a call scheduled
\* fairly and every round trip completing.  A goroutine blocked in Lock() is
\* not passed over for ever by later callers (sync.Mutex hands the lock to a
\* waiter that has been starved), hence the strong fairness of that step.
ForwardFairness ==
    \A t \in Threads :
       /\ WF_vars(RefreshCheck(t))
       /\ SF_vars(RefreshLock(t))
       /\ WF_vars(RefreshLocked(t))
       /\ WF_vars(\E h2err \in ConfigureTransportResults : RefreshSlow(t, h2err))
       /\ WF_vars(ForwardCheck(t))
       /\ WF_vars(\E err \in {"", "transport error"} : ForwardDone(t, err))

SpecForwardFair == InitStandby /\ [][NextForward]_vars /\ ForwardFairness

\* ---------------------------------------------- properties of the listeners
\* The step is a call of start / of stop by the state-lock holder.
StartStep == ncalls' = ncalls + 1 /\ hostPc' = "idle" /\ ret'.op = "start"
StopStep == ncalls' = ncalls + 1 /\ (ret'.op = "stop" \/ hostPc' = "stop_wait")

\* The channels made by the start of coordinator c.
ShutdownChanOf(c) == [kind |-> "shutdown", gen |-> c.gen]
SuccessChanOf(c) == [kind |-> "success", gen |-> c.gen]

\* stop() has returned and no other call was made since.
StopReturned == hostPc = "idle" /\ ret.op = "stop"

\* The wrapped listeners that are open and have a serving loop.
Accepting == serveTasks \cap openLns

\* C1: once stop() has returned, no wrapped listener made by a successful
\* start() is still open: stop() returns only after the coordinator closed them.
C1_StopReturnsAfterListenersClosed ==
    StopReturned => \A c \in coord : Range(c.tlsLns) \cap openLns = {}

\* C1 witness: a stop() that had to wait has returned after a start() that
\* wrapped one listener per port.
C1_Witness ==
    /\ StopReturned /\ ret.waited
    /\ \E c \in coord : c.pc = "done" /\ Len(c.tlsLns) = NumPorts

\* C2 (as claimed): once stop() has returned both channels are nil, and a
\* start() that follows with a registered factory and a persisted certificate
\* is not rejected as already running and finds every address free.
C2_RestartAfterStopFindsPortsFree ==
    [][StopReturned =>
         /\ clusterListenerShutdownCh = <<>>
         /\ clusterListenerShutdownSuccessCh = <<>>
         /\ (StartStep /\ clusterListenerSetupFunc # "nil"
                /\ ClusterTLSConfig(Self).err = "")
              => /\ ret'.err # "cluster listeners already setup"
                 /\ BoundPorts = {}]_vars

\* C3: a start() made while the shutdown-request channel exists returns the
\* already-set-up error, opens no listener and spawns no goroutine; so at most
\* one coordinator is alive and the accepting listeners are those of one start.
AtMostOneListenerSet ==
    /\ Cardinality({c \in coord : c.pc # "done"}) <= 1
    /\ Cardinality({l.gen : l \in Accepting}) <= 1
C3_DoubleStartRejected ==
    [][/\ (StartStep /\ clusterListenerShutdownCh # <<>>)
           => /\ ret'.err = "cluster listeners already setup"
              /\ openLns' = openLns
              /\ serveTasks' = serveTasks
              /\ coord' = coord
              /\ clusterListenerShutdownCh' = clusterListenerShutdownCh
              /\ clusterListenerShutdownSuccessCh' = clusterListenerShutdownSuccessCh
       /\ AtMostOneListenerSet']_vars

\* C3 witness: a start() was rejected while a coordinator was alive and its
\* listeners were accepting.
C3_Witness ==
    /\ ret.op = "start" /\ ret.err = "cluster listeners already setup"
    /\ \E c \in coord : c.pc # "done" /\ Range(c.tlsLns) \subseteq Accepting
                          /\ Len(c.tlsLns) = NumPorts

\* The errors of a start() that was not rejected as already running.
StartFailures ==
    {"cluster listener setup function has not been set",
     "bind: address already in use",
     "cluster certificate is nil", "Vault is sealed"}

\* C4: a start() that fails (no factory, factory error, no TLS config) leaves
\* both channels nil and spawns nothing; the stop() that follows it returns at
\* once having changed nothing, and the start() that follows it is not
\* rejected as already running.
C4_FailedStartLeavesStopped ==
    [][/\ (StartStep /\ ret'.err \in StartFailures)
           => /\ clusterListenerShutdownCh' = <<>>
              /\ clusterListenerShutdownSuccessCh' = <<>>
              /\ serveTasks' = serveTasks
              /\ coord' = coord
       /\ (hostPc = "idle" /\ ret.op = "start" /\ ret.err \in StartFailures)
           => /\ StopStep => /\ hostPc' = "idle"
                             /\ ret' = Returned("stop", "", FALSE, FALSE)
                             /\ listenerVars' = listenerVars
              /\ StartStep => ret'.err # "cluster listeners already setup"]_vars

\* C4 witness: a start() failed on the TLS configuration after the factory had
\* returned its listeners.
C4_Witness ==
    /\ ret.op = "start" /\ ret.err = "cluster certificate is nil"
    /\ clusterListenerSetupFunc = "bind"
    /\ clusterListenerShutdownCh = <<>>

\* C5: a stop() made when no start() ever succeeded, or right after a stop()
\* returned, returns without waiting, closes no channel and changes nothing.
C5_StopWithoutStartIsNoOp ==
    [][(StopStep /\ (coord = {} \/ StopReturned))
          => /\ hostPc' = "idle"
             /\ ret' = Returned("stop", "", FALSE, FALSE)
             /\ listenerVars' = listenerVars]_vars

\* C5 witness: a second stop() returned without waiting after a full
\* start/stop cycle.
C5_Witness ==
    /\ ret = Returned("stop", "", FALSE, FALSE) /\ hostPc = "idle"
    /\ \E c \in coord : c.pc = "done"

\* C6: no channel is closed twice; the shutdown-complete channel of a start()
\* is closed, and a listener of that start() is closed, only after the
\* shutdown-request channel of the same start() was closed.
C6_RequestBeforeComplete ==
    /\ ~panicked
    /\ \A c \in coord :
         (SuccessChanOf(c) \in closedChans \/ Range(c.tlsLns) \ openLns # {})
            => ShutdownChanOf(c) \in closedChans

\* C6 witness: a coordinator has closed its listeners and signalled completion.
C6_Witness ==
    \E c \in coord : /\ SuccessChanOf(c) \in closedChans
                     /\ Len(c.tlsLns) = NumPorts
                     /\ Range(c.tlsLns) \cap openLns = {}

\* C7: with start() called on every transition to active and stop() on every
\* transition away, the cluster listeners accept exactly while the node is
\* active: the listeners the factory returned to the running start() all
\* accept, and only they, while it is active, and none accepts while it is
\* standby, sealed, or activating again.
C7_ListenersAcceptWhileActive ==
    /\ nodeState = "active" =>
         \E c \in coord : c.pc # "done" /\ Accepting = Range(c.tlsLns)
    /\ nodeState \in {"sealed", "standby", "activating"} => Accepting = {}

\* C7 witness: the node is active again after an earlier activation was
\* stopped, and its listeners accept on every port.
C7_Witness ==
    /\ nodeState = "active"
    /\ \E c \in coord : c.pc = "done" /\ Len(c.tlsLns) = NumPorts
    /\ {l.port : l \in Accepting} = Ports

\* -------------------------------------------- properties of the forwarding
\* Thread t takes a step of its call.
Steps(t) == pc'[t] # pc[t]

\* C8: a ForwardRequest that found, when it took the read lock, no connection
\* or a connection with an empty address returns ErrCannotForward and hands
\* no request to the client.
C8_ForwardWithoutUpstreamFails ==
    [][\A t \in Threads :
         (/\ pc[t] = "f_check" /\ Steps(t)
          /\ \/ fwdSnapshot[t] = <<>>
             \/ fwdSnapshot[t][1].clusterAddr = "")
            => /\ pc'[t] = "idle"
               /\ thrRet' = [op |-> "forward", err |-> ErrCannotForward,
                             wlock |-> FALSE]
               /\ fwdTarget'[t] = <<>>]_vars

\* C8 witness: a ForwardRequest returned ErrCannotForward after a connection
\* had been built and a refresh with "" had dropped it.
C8_Witness ==
    /\ thrRet = [op |-> "forward", err |-> ErrCannotForward, wlock |-> FALSE]
    /\ clientsMade > 0
    /\ requestForwardingConnection = <<>>
    /\ lastRefreshed = <<"">>

C10_FastPathTakesOnlyReadLock ==
    [][\A t \in Threads :
         (/\ pc[t] = "r_check" /\ Steps(t)
          /\ \/ fwdSnapshot[t] = <<>> /\ argAddr[t] = ""
             \/ fwdSnapshot[t] # <<>> /\ fwdSnapshot[t][1].clusterAddr = argAddr[t])
            => /\ pc'[t] = "idle"
               /\ thrRet' = [op |-> "refresh", err |-> "", wlock |-> FALSE]
               /\ rwWriter' = rwWriter
               /\ requestForwardingConnection' = fwdSnapshot[t]
               /\ clientsMade' = clientsMade]_vars

\* C10 witness: a refresh returned nil from the first checks while a
\* connection with its address exists.
C10_Witness ==
    /\ thrRet = [op |-> "refresh", err |-> "", wlock |-> FALSE]
    /\ requestForwardingConnection # <<>>
    /\ lastRefreshed = <<requestForwardingConnection[1].clusterAddr>>
    /\ rwWriter = <<>>

\* The slow path of thread t's refresh runs in this step.
SlowStep(t) == pc[t] = "r_slow" /\ pc'[t] = "idle"

\* C11: a refresh with "" that runs its slow path while a connection exists
\* sets the connection to nil and returns nil; the connection becomes nil in
\* no other step: not in a ForwardRequest, not in a refresh with an address.
C11_OnlyEmptyRefreshDropsConnection ==
    [][/\ \A t \in Threads :
            (SlowStep(t) /\ argAddr[t] = "" /\ requestForwardingConnection # <<>>)
               => /\ requestForwardingConnection' = <<>>
                  /\ thrRet' = [op |-> "refresh", err |-> "", wlock |-> TRUE]
       /\ (requestForwardingConnection # <<>> /\ requestForwardingConnection' = <<>>)
            => \E t \in Threads : SlowStep(t) /\ argAddr[t] = ""]_vars

\* C11 witness: a refresh with "" has just dropped a connection that had been
\* built.
C11_Witness ==
    /\ requestForwardingConnection = <<>>
    /\ clientsMade > 0
    /\ lastRefreshed = <<"">>
    /\ thrRet = [op |-> "refresh", err |-> "", wlock |-> TRUE]

\* C12: a refresh with a non-empty address that runs its slow path while a
\* connection with another address exists keeps the connection's client,
\* builds no client, does not call ClusterTLSConfig, stores the new address
\* and returns nil.
C12_AddressChangeReusesClient ==
    [][\A t \in Threads :
         (/\ SlowStep(t) /\ argAddr[t] # ""
          /\ requestForwardingConnection # <<>>
          /\ requestForwardingConnection[1].clusterAddr # argAddr[t])
            => /\ requestForwardingConnection' # <<>>
               /\ requestForwardingConnection'[1].client =
                     requestForwardingConnection[1].client
               /\ requestForwardingConnection'[1].clusterAddr = argAddr[t]
               /\ clientsMade' = clientsMade
               /\ localClusterCertPool' = localClusterCertPool
               /\ thrRet' = [op |-> "refresh", err |-> "", wlock |-> TRUE]]_vars

\* C12 witness: the only client ever built serves a connection whose address
\* was replaced.
C12_Witness ==
    /\ requestForwardingConnection # <<>>
    /\ prevAddr # <<>>
    /\ prevAddr # <<requestForwardingConnection[1].clusterAddr>>
    /\ requestForwardingConnection[1].client.id = clientsMade
    /\ thrRet = [op |-> "refresh", err |-> "", wlock |-> TRUE]

\* C13: while a ForwardRequest is between its checks and the return of its
\* round trip, the connection is the one it found when it took the read lock,
\* and the request it sent is addressed to that connection's address through
\* that connection's client.
C13_ForwardSeesOneConnection ==
    \A t \in Threads :
        /\ pc[t] \in {"f_check", "f_do"} =>
              requestForwardingConnection = fwdSnapshot[t]
        /\ pc[t] = "f_do" =>
              /\ fwdSnapshot[t] # <<>>
              /\ fwdTarget[t] = <<[addr |-> fwdSnapshot[t][1].clusterAddr,
                                   client |-> fwdSnapshot[t][1].client.id]>>

\* C13 witness: every thread has a round trip under way at the same time, on
\* a connection whose address was replaced before.
C13_Witness ==
    /\ \A t \in Threads : pc[t] = "f_do"
    /\ prevAddr # <<>>

\* ------------------------------------------------ properties of the identity
\* The persisted identity record, field by field, and the persisted key.
StoredName == IF storeInfo = <<>> THEN <<>> ELSE storeInfo[1].name
StoredID == IF storeInfo = <<>> THEN <<>> ELSE storeInfo[1].id
StoredCert ==
    IF storeInfo = <<>> \/ storeInfo[1].certificate = <<"null">>
    THEN <<>> ELSE storeInfo[1].certificate[2]
StoredKey ==
    IF storeKey = <<>> THEN <<>>
    ELSE <<[X |-> storeKey[1].x[1], Y |-> storeKey[1].y[1], D |-> storeKey[1].d[1]]>>

\* This step is a setupCluster call of node n that returns nil.
SetupReturnedNil(n) ==
    /\ idLast' # <<>> /\ idLast'[1] = n /\ idLast'[2] # "error"
    /\ idLast' # idLast \/ idLast[2] = "again"

\* C14: a setupCluster call made by a node right after a call of the same
\* node returned nil leaves the identity record and the key record as they
\* were, generates nothing and writes nothing.
C14_SecondCallWritesNothing ==
    [][\A n \in Nodes :
         (idLast # <<>> /\ idLast[1] = n /\ idLast[2] # "error"
            /\ idLast' = <<n, "again">>)
            => /\ storeInfo' = storeInfo
               /\ storeKey' = storeKey
               /\ nextRand' = nextRand
               /\ \A fault \in Faults : ~setupCluster(n, fault).wrote]_vars

\* C14 witness: node Self, which advertises an address, called setupCluster
\* twice in a row and a certificate is stored.
C14_Witness ==
    /\ idLast = <<Self, "again">>
    /\ advertiseAddr[Self] # ""
    /\ StoredCert # <<>>

\* C15: once the persisted record has an id, no step changes it.
C15_IdNeverChanges ==
    [][StoredID # <<>> => StoredID' = StoredID]_vars

\* C15 witness: after the id was stored, a node with a configured cluster
\* name and another node both completed setupCluster.
C15_Witness ==
    /\ StoredID # <<>>
    /\ clusterName[Self] = <<"testcluster">>
    /\ localClusterPrivateKey[Self] # <<>>
    /\ idLast # <<>> /\ idLast[1] # Self /\ idLast[2] = "first"

\* C16: once the persisted record has a name, no step changes it.
C16_NameNeverChanges ==
    [][StoredName # <<>> => StoredName' = StoredName]_vars

\* C17: with calls that do not overlap, a setupCluster call that returns nil
\* writes the key record only if none is stored, the key record never changes
\* once written, the node holds the stored key afterwards, and every node
\* reads the certificate that is stored.
C17_OneKeyGeneratedOthersLoad ==
    [][/\ storeKey # <<>> => storeKey' = storeKey
       /\ \A n \in Nodes :
            SetupReturnedNil(n)
               => /\ storeKey' # <<>>
                  /\ localClusterPrivateKey'[n] = StoredKey'
                  /\ \A m \in Nodes :
                        Cluster(m)'.cluster.Certificate = StoredCert']_vars

\* C17 witness: three nodes hold the one stored key and each has read the
\* stored certificate into its pool.
C17_Witness ==
    /\ StoredCert # <<>>
    /\ Cardinality({n \in Nodes :
                      /\ localClusterPrivateKey[n] = StoredKey
                      /\ localClusterCertPool[n] =
                            <<{ParseCertificate(StoredCert)}>>}) > NumNodes - 1

\* C18: whatever the order of the barrier operations of the nodes' calls, the
\* key record is written at most once and every node that holds a private key
\* holds the one in storage.
C18_OneKeypairClusterWide ==
    [][/\ storeKey # <<>> => storeKey' = storeKey
       /\ \A n \in Nodes :
            localClusterPrivateKey'[n] # <<>>
               => localClusterPrivateKey'[n] = StoredKey']_vars

\* C19: the persisted certificate changes only in a setupCluster call of a
\* node with a non-empty advertise address, and only if no certificate was
\* stored or that call wrote a new key.
C19_CertificateReplacedOnlyWhenNeeded ==
    [][StoredCert' # StoredCert
         => \E n \in Nodes :
               /\ SetupReturnedNil(n)
               /\ advertiseAddr[n] # ""
               /\ StoredCert = <<>> \/ storeKey' # storeKey]_vars

\* C19 witness: node Self, advertising no address, generated the key and no
\* certificate; a later call of another node loaded the key and generated the
\* certificate.
C19_Witness ==
    /\ advertiseAddr[Self] = ""
    /\ localClusterPrivateKey[Self] # <<>>
    /\ StoredCert # <<>>
    /\ StoredCert[1].CommonName # StoredKey[1].D

\* C20: a setupCluster call made while the barrier is sealed returns an
\* error; it writes nothing, generates nothing, and leaves the node's private
\* key, cluster name and certificate pool as they were.
C20_SealedSetupFailsWithoutEffect ==
    [][(sealed /\ idLast' # <<>>)
         => /\ idLast'[2] = "error"
            /\ UNCHANGED <<storeInfo, storeKey, nextRand, localClusterPrivateKey,
                           clusterName, localClusterCertPool>>]_vars

\* C20 witness: a node that holds the private key called setupCluster while
\* the barrier was sealed.
C20_Witness ==
    /\ sealed
    /\ idLast # <<>> /\ idLast[2] = "error"
    /\ localClusterPrivateKey[idLast[1]] # <<>>
    /\ storeInfo # <<>>

\* The stored key record is one setupCluster refuses: a component is missing
\* or the type tag is not the supported one.
InvalidStoredKey ==
    /\ storeKey # <<>>
    /\ \/ storeKey[1].x = <<>> \/ storeKey[1].y = <<>> \/ storeKey[1].d = <<>>
       \/ storeKey[1].type # corePrivateKeyTypeP521
InvalidKeyMaterial ==
    {"failed to parse local cluster key",
     "failed to find valid local cluster key type"}

\* C21: while the stored key record lacks x, y or d or carries another type
\* tag, a setupCluster call of a node that holds no private key returns one
\* of the two invalid-key errors, leaves the node's private key unloaded and
\* leaves the key record and the identity record as they were; the record
\* being unchanged, the next call fails the same way.  (The backend may fail
\* a read of node Self, whose call then returns that error instead.)
C21_InvalidKeyMaterialRejected ==
    [][\A n \in Nodes :
         (InvalidStoredKey /\ localClusterPrivateKey[n] = <<>>)
            => /\ setupCluster(n, "none").err \in InvalidKeyMaterial
               /\ (idLast' # <<>> /\ idLast'[1] = n)
                     => /\ idLast'[2] = "error"
                        /\ n # Self => idLast'[3] \in InvalidKeyMaterial
                        /\ localClusterPrivateKey'[n] = <<>>
                        /\ storeKey' = storeKey
                        /\ storeInfo' = storeInfo
                        /\ InvalidStoredKey']_vars

\* C21 witness: an identity record is stored, the key record has all three
\* components and another type tag, and a call of a node other than Self
\* just failed on it.
C21_Witness ==
    /\ storeInfo # <<>>
    /\ storeKey # <<>>
    /\ storeKey[1].type # corePrivateKeyTypeP521
    /\ storeKey[1].x # <<>> /\ storeKey[1].y # <<>> /\ storeKey[1].d # <<>>
    /\ idLast # <<>> /\ idLast[1] # Self
    /\ idLast[2] = "error"
    /\ idLast[3] = "failed to find valid local cluster key type"
    /\ localClusterPrivateKey[idLast[1]] = <<>>

\* C22: after a setupCluster call that returns nil, the persisted identity
\* record has a non-empty name and a non-empty id, a key record is stored
\* with x, y and d present and the supported type tag, and if the calling
\* node advertises an address the persisted certificate is non-empty.
C22_SuccessLeavesCompleteRecords ==
    [][\A n \in Nodes :
         SetupReturnedNil(n)
            => /\ storeInfo' # <<>>
               /\ storeInfo'[1].name # <<>>
               /\ storeInfo'[1].id # <<>>
               /\ storeKey' # <<>>
               /\ storeKey'[1].x # <<>>
               /\ storeKey'[1].y # <<>>
               /\ storeKey'[1].d # <<>>
               /\ storeKey'[1].type = corePrivateKeyTypeP521
               /\ advertiseAddr[n] # ""
                    => /\ storeInfo'[1].certificate # <<"null">>
                       /\ Len(storeInfo'[1].certificate[2]) > 0]_vars

\* C22 witness: node Self, advertising an address, returned nil on a storage
\* that already held an identity record without certificate and a valid key
\* record; the certificate is now stored.
C22_Witness ==
    /\ idLast = <<Self, "first">>
    /\ advertiseAddr[Self] # ""
    /\ storeKey = <<[type |-> corePrivateKeyTypeP521, x |-> <<0>>, y |-> <<0>>,
                     d |-> <<0>>]>>
    /\ StoredID = <<"uuid", 0>>
    /\ StoredCert # <<>>

\* --------------------------- specification: TLS configurations of the nodes
\* The nodes that build TLS configurations
TLSNodes == 1..NumTLSNodes

\* Node n calls c.setupCluster() and no barrier operation fails.
TLSSetup(n) ==
    /\ ApplySetup(n, setupCluster(n, "none"))
    /\ UNCHANGED setupVars
    /\ UNCHANGED <<listenerVars, hostVars, forwardVars, tlsVars>>

\* Node n calls c.ClusterTLSConfig(), as startClusterListener (line 309) and
\* refreshRequestForwardingConnection (line 429) do.
TLSBuild(n) ==
    LET r == ClusterTLSConfig(n) IN
    /\ localClusterCertPool' = [localClusterCertPool EXCEPT ![n] = r.pool]
    /\ tlsConfig' = [tlsConfig EXCEPT ![n] =
                       <<[err |-> r.err, cfg |-> r.cfg, cert |-> StoredCert]>>]
    /\ UNCHANGED <<sealed, storeInfo, storeKey, clusterName, advertiseAddr,
                   localClusterPrivateKey, nextRand, setupVars>>
    /\ UNCHANGED <<listenerVars, hostVars, forwardVars>>

\* The last ClusterTLSConfig call of node n returned a configuration.
Built(n) == tlsConfig[n] # <<>> /\ tlsConfig[n][1].err = ""

\* The nodes are stopped and started again on another, empty storage; the
\* configurations built on the old storage stay with the peers that hold
\* them, so that configurations of at most two storages are held at a time.
TLSStorageReplaced ==
    /\ storeInfo # <<>>
    /\ \A n \in Nodes : Built(n) => tlsConfig[n][1].cert = StoredCert
    /\ storeInfo' = <<>>
    /\ storeKey' = <<>>
    /\ localClusterPrivateKey' = [n \in Nodes |-> <<>>]
    /\ localClusterCertPool' = [n \in Nodes |-> <<>>]
    /\ clusterName' = [n \in Nodes |->
                         IF clusterName[n] \in ConfiguredNames
                         THEN clusterName[n] ELSE <<>>]
    /\ idLast' = <<>>
    /\ UNCHANGED <<sealed, advertiseAddr, nextRand, setupPc, setupLocal>>
    /\ UNCHANGED <<listenerVars, hostVars, forwardVars, tlsVars>>

NextTLS ==
    \/ \E n \in TLSNodes : TLSSetup(n)
    \/ \E n \in TLSNodes : TLSBuild(n)
    \/ TLSStorageReplaced

InitTLSNodes == InitInterleaved /\ clusterName[Self] = <<>>

SpecTLS == InitTLSNodes /\ [][NextTLS]_vars

\* C23: a ClusterTLSConfig call made while no identity record is stored, or
\* while the stored record has no certificate, returns an error and no
\* configuration; a call that returns a configuration was made while a
\* certificate was stored.
C23_NoCertificateNoConfig ==
    \A n \in Nodes :
       tlsConfig[n] # <<>>
          => LET r == tlsConfig[n][1] IN
             /\ r.cert = <<>> => (r.err # "" /\ r.cfg = NoTLSConfig)
             /\ r.err = "" => (r.cert # <<>> /\ r.cfg # NoTLSConfig)
             /\ r.err # "" => r.cfg = NoTLSConfig

\* C23 witness: an identity record without certificate is stored, a node
\* got the error for it, and another node holds a configuration built
\* earlier on a storage with a certificate.
C23_Witness ==
    /\ storeInfo # <<>> /\ StoredCert = <<>>
    /\ \E n, o \in Nodes :
          /\ tlsConfig[n] # <<>>
          /\ tlsConfig[n][1].err = "cluster certificate is nil"
          /\ Built(o)

\* C24: every configuration a ClusterTLSConfig call returns carries the
\* certificate that is stored and a private key that is loaded and is the key
\* in storage.
C24_ConfigCarriesStoredKey ==
    [][\A n \in Nodes :
         (tlsConfig'[n] # tlsConfig[n] /\ tlsConfig'[n][1].err = "")
            => LET cfg == tlsConfig'[n][1].cfg[1] IN
               /\ cfg.Certificate = StoredCert
               /\ cfg.PrivateKey # <<>>
               /\ cfg.PrivateKey = StoredKey]_vars

\* A handshake between a client and a server configuration succeeds exactly
\* when each side's certificate is in the other side's pool.
Handshake(client, server) ==
    /\ ParseCertificate(client.Certificate) \in server.ClientCAs[1]
    /\ ParseCertificate(server.Certificate) \in client.RootCAs[1]

\* C25: two configurations built while the same certificate was stored
\* complete the handshake in both directions (each pool holds the certificate
\* the configuration presents); two configurations built on different
\* storages, which hold different certificates, do not.
C25_HandshakeIffSameMaterial ==
    \A a, b \in Nodes :
       (Built(a) /\ Built(b))
          => LET ra == tlsConfig[a][1]
                 rb == tlsConfig[b][1]
             IN /\ ParseCertificate(ra.cfg[1].Certificate) \in ra.cfg[1].RootCAs[1]
                /\ ra.cert = rb.cert
                     => Handshake(ra.cfg[1], rb.cfg[1])
                /\ ra.cert # rb.cert
                     => /\ ~Handshake(ra.cfg[1], rb.cfg[1])
                        /\ ~Handshake(rb.cfg[1], ra.cfg[1])

\* C25 witness: two nodes hold configurations built on the same storage, and
\* a third holds one built on the storage the nodes were on before.
C25_Witness ==
    \E a, b, o \in Nodes :
       /\ a # b
       /\ Built(a) /\ Built(b) /\ Built(o)
       /\ tlsConfig[a][1].cert = tlsConfig[b][1].cert
       /\ tlsConfig[a][1].cert # tlsConfig[o][1].cert
       /\ tlsConfig[a][1].cert = StoredCert

\* C26: the identity record is written only by the step that ends a
\* setupCluster call with nil, which is the call's last barrier operation and
\* is taken once per call, and only if the call set the name or the id or
\* generated a certificate; a call that returns an error has written nothing
\* to the record.
C26_InfoWrittenOnceAtTheEnd ==
    [][/\ storeInfo' # storeInfo
          => \E n \in Nodes :
                /\ setupPc[n] = "info" /\ setupPc'[n] = "idle"
                /\ idLast' = <<n, "first">>
                /\ \/ setupLocal[n][1].modified
                   \/ UnmarshalCluster(storeInfo'[1]).Certificate
                         # setupLocal[n][1].cluster.Certificate
                /\ \A o \in Nodes \ {n} : setupPc'[o] = setupPc[o]
       /\ \A n \in Nodes :
             (setupPc[n] # "idle" /\ setupPc'[n] = "idle"
                /\ idLast'[1] = n /\ idLast'[2] = "error")
                => storeInfo' = storeInfo]_vars

\* C26 witness: a call of node Self, which has a configured cluster name,
\* generated the certificate, failed at the Put of the identity record, and
\* the record another node's call wrote is still the stored one.
C26_Witness ==
    /\ idLast = <<Self, "error", "failed to store cluster details">>
    /\ clusterName[Self] = <<"testcluster">>
    /\ localClusterPrivateKey[Self] # <<>>
    /\ storeInfo # <<>>
    /\ StoredName # <<"testcluster">>

\* C29: a node's private key becomes loaded only in a call after which the
\* key record is stored and is that key; a call of a node without a loaded
\* key that returns an error leaving no key record stored (the Put of the
\* generated key failed, or an earlier operation did) leaves the node's key
\* unloaded and the identity record as it was; and a call that finds no key
\* record and returns nil has stored one, which is the key the node holds.
C29_KeyLoadedOnlyOnceStored ==
    [][\A n \in Nodes :
         /\ (localClusterPrivateKey'[n] # <<>>
               /\ localClusterPrivateKey'[n] # localClusterPrivateKey[n])
              => /\ storeKey' # <<>>
                 /\ storeKey'[1] = [type |-> corePrivateKeyTypeP521,
                                    x |-> <<localClusterPrivateKey'[n][1].X>>,
                                    y |-> <<localClusterPrivateKey'[n][1].Y>>,
                                    d |-> <<localClusterPrivateKey'[n][1].D>>]
         /\ (idLast' # <<>> /\ idLast'[1] = n /\ idLast'[2] = "error"
               /\ localClusterPrivateKey[n] = <<>> /\ storeKey' = <<>>)
              => /\ localClusterPrivateKey'[n] = <<>>
                 /\ storeInfo' = storeInfo
         /\ (SetupReturnedNil(n) /\ localClusterPrivateKey[n] = <<>>
               /\ storeKey = <<>>)
              => /\ storeKey' # <<>>
                 /\ localClusterPrivateKey'[n] = StoredKey']_vars

\* C29 witness: the Put of the key node Self generated failed; no key record
\* is stored, the node holds no key and no identity record was written.
C29_Witness ==
    /\ idLast = <<Self, "error", "failed to store local cluster key">>
    /\ localClusterPrivateKey[Self] = <<>>
    /\ storeKey = <<>>
    /\ storeInfo = <<>>
    /\ nextRand > 0

\* C27: a client is built only in a slow-path step that finds no connection,
\* one client per step in which the connection goes from nil to non-nil; a
\* refresh with an address that takes the write lock while a connection
\* exists builds no client and no TLS configuration and keeps the
\* connection's client: it leaves the connection as it is if the address
\* matches and only stores the address otherwise.
C27_OneClientPerCreation ==
    [][/\ clientsMade' # clientsMade
          => /\ requestForwardingConnection = <<>>
             /\ requestForwardingConnection' # <<>>
             /\ \E t \in Threads : SlowStep(t)
       /\ (requestForwardingConnection = <<>>
             /\ requestForwardingConnection' # <<>>)
          => /\ clientsMade' = clientsMade + 1
             /\ requestForwardingConnection'[1].client.id = clientsMade'
       /\ \A t \in Threads :
             (SlowStep(t) /\ argAddr[t] # ""
                /\ requestForwardingConnection # <<>>)
                => /\ clientsMade' = clientsMade
                   /\ localClusterCertPool' = localClusterCertPool
                   /\ requestForwardingConnection' # <<>>
                   /\ requestForwardingConnection'[1].client =
                         requestForwardingConnection[1].client
                   /\ requestForwardingConnection'[1].clusterAddr = argAddr[t]
                   /\ requestForwardingConnection[1].clusterAddr = argAddr[t]
                        => requestForwardingConnection' =
                              requestForwardingConnection
                   /\ thrRet' = [op |-> "refresh", err |-> "",
                                 wlock |-> TRUE]]_vars

\* C27 witness: the one client ever built serves a connection whose address
\* was never replaced, and a refresh with that same address, which therefore
\* began while there was no connection, now holds the write lock.
C27_Witness ==
    /\ clientsMade = 1
    /\ requestForwardingConnection # <<>>
    /\ prevAddr = <<>>
    /\ \E t \in Threads :
          /\ pc[t] = "r_slow"
          /\ argAddr[t] = requestForwardingConnection[1].clusterAddr

\* C28: the connection goes from nil to non-nil only in the slow path of a
\* refresh with a non-empty address, which then carries the configuration
\* ClusterTLSConfig returns in that step; ClusterTLSConfig is called in the
\* slow path exactly when there is no connection and the address is
\* non-empty; a refresh that returns an error (of ClusterTLSConfig or of the
\* transport's configuration) leaves the connection nil; a ForwardRequest
\* that finds it nil returns ErrCannotForward; and every later refresh with
\* an address that finds it nil either creates it or returns an error again.
C28_FailedCreationLeavesNoConnection ==
    [][/\ (requestForwardingConnection = <<>>
             /\ requestForwardingConnection' # <<>>)
          => /\ \E t \in Threads : SlowStep(t) /\ argAddr[t] # ""
             /\ ClusterTLSConfig(Self).err = ""
             /\ requestForwardingConnection'[1].client.tls =
                   ClusterTLSConfig(Self).cfg[1]
             /\ thrRet' = [op |-> "refresh", err |-> "", wlock |-> TRUE]
       /\ \A t \in Threads :
             /\ SlowStep(t)
                  => localClusterCertPool'[Self] =
                        IF requestForwardingConnection = <<>> /\ argAddr[t] # ""
                        THEN ClusterTLSConfig(Self).pool
                        ELSE localClusterCertPool[Self]
             /\ (SlowStep(t) /\ thrRet'.err # "")
                  => /\ argAddr[t] # ""
                     /\ requestForwardingConnection = <<>>
                     /\ requestForwardingConnection' = <<>>
                     /\ clientsMade' = clientsMade
                     /\ thrRet'.op = "refresh"
                     /\ thrRet'.err \in
                           {ClusterTLSConfig(Self).err}
                              \cup (ConfigureTransportResults \ {""})
             /\ (SlowStep(t) /\ argAddr[t] # ""
                   /\ requestForwardingConnection = <<>>)
                  => \/ requestForwardingConnection' # <<>>
                     \/ thrRet'.err # ""
             /\ (pc[t] = "f_check" /\ Steps(t)
                   /\ requestForwardingConnection = <<>>)
                  => thrRet' = [op |-> "forward", err |-> ErrCannotForward,
                                wlock |-> FALSE]]_vars

\* C28 witness: node Self, which never ran setupCluster, read the stored
\* certificate into its pool in a refresh that built the TLS configuration
\* and failed at the transport; no client was ever stored, and a
\* ForwardRequest returned ErrCannotForward.
C28_Witness ==
    /\ requestForwardingConnection = <<>>
    /\ clientsMade = 0
    /\ localClusterPrivateKey[Self] = <<>>
    /\ localClusterCertPool[Self] # <<>>
    /\ localClusterCertPool[Self][1] # {}
    /\ thrRet = [op |-> "forward", err |-> ErrCannotForward, wlock |-> FALSE]

\* C30: with the coordinator goroutine scheduled fairly, a
\* stopClusterListener call that reaches its receive (it was called after a
\* start that returned nil) returns, whether or not the serving loops ever
\* return.
C30_StopEventuallyReturns ==
    (hostPc = "stop_wait") ~> (hostPc = "idle" /\ ret.op = "stop" /\ ret.waited)

\* C30 witness: stop() returned after waiting while every serving loop
\* started by the start() before it is still running.
C30_Witness ==
    /\ hostPc = "idle"
    /\ ret = Returned("stop", "", TRUE, TRUE)
    /\ Cardinality(serveTasks) = NumPorts
    /\ openLns = {}
    /\ \A c \in coord : c.pc = "done"

\* C32: whenever the slow path of a refresh is not in the middle of its body
\* (every state of the model: the body runs as one step under the write
\* lock), a connection that exists has a non-empty address; so no
\* ForwardRequest at its checks finds a connection with an empty address.
C32_ConnectionHasAddress ==
    /\ requestForwardingConnection # <<>>
         => requestForwardingConnection[1].clusterAddr # ""
    /\ \A t \in Threads :
          (pc[t] \in {"f_check", "f_do"} /\ fwdSnapshot[t] # <<>>)
             => fwdSnapshot[t][1].clusterAddr # ""

\* C32 witness: a ForwardRequest is at its checks on a connection whose
\* address was replaced, while a refresh with "" waits for the write lock.
C32_Witness ==
    /\ requestForwardingConnection # <<>>
    /\ prevAddr # <<>>
    /\ \E t, u \in Threads :
          /\ pc[t] = "f_check"
          /\ pc[u] = "r_lock" /\ argAddr[u] = ""

\* C31: a refresh that asks for or holds the write lock does not hold the
\* read lock; and with the goroutines scheduled fairly and the round trips
\* completing, every call of refreshRequestForwardingConnection and of
\* ForwardRequest that is under way returns, and a write lock that is held or
\* asked for is released, so that a caller waiting in RLock() gets in.
C31_NoDeadlockEveryCallReturns ==
    /\ [](\A t \in Threads :
             pc[t] \in {"r_lock", "r_lock_wait", "r_slow"} => t \notin rwReaders)
    /\ \A t \in Threads : (pc[t] # "idle") ~> (pc[t] = "idle")
    /\ (rwWriter # <<>>) ~> (rwWriter = <<>>)

\* C31 witness: after a slow-path refresh returned, a refresh with "" has
\* asked for the write lock and waits for a ForwardRequest whose round trip
\* is under way with the read lock held.
C31_Witness ==
    /\ thrRet = [op |-> "refresh", err |-> "", wlock |-> TRUE]
    /\ \E t, u \in Threads :
          /\ pc[t] = "r_lock_wait" /\ argAddr[t] = ""
          /\ rwWriter = <<t>>
          /\ pc[u] = "f_do"
          /\ rwReaders = {u}

====
